---- MODULE Spec2Model ----
(***************************************************************************)
(* Model of the AltiVec backend of the v4 short-vector library             *)
(* (src/util/v4/v4_altivec.hxx).                                           *)
(*                                                                         *)
(* A lane is a 32-bit pattern, kept as its four bytes, most significant    *)
(* first (AltiVec is big-endian): w[0] is bits 31..24, w[3] bits 7..0.     *)
(* A vector (__vector float / __vector int) is four lanes, v[0]..v[3].     *)
(* The casts (_v4_int), (_v4_uint), (_v4_float) between vector types and   *)
(* the unions { float f[4]; _v4_float v; } relabel the bits and change     *)
(* nothing, so they do not appear below.                                   *)
(* Memory is an array of 32-bit words; pointers are byte addresses.        *)
(***************************************************************************)
EXTENDS Integers, Sequences, FiniteSets, TLC

VARIABLES a, b, c, d, mem, r, ret, last, lastStore, nops,
          lineno, env, cache, path

vars == <<a, b, c, d, mem, r, ret, last, lastStore, nops, lineno, env, cache,
          path>>

\* the state of the build: the line the cluster script is at, its shell
\* variables, the cmake cache it writes and the code path of a kernel
build == <<lineno, env, cache, path>>

-----------------------------------------------------------------------------
(* Bounds of the model *)

\* number of sample lane values the operands are built from
NVals == 7

\* number of initial contents of the four vector objects a, b, c, d
NMats == 2

\* number of in-place / memory calls in one run
MaxOps == 3

\* size of the modelled memory, in 16-byte blocks
MemBlocks == 5

NSmall == 4

NFlt == 6

-----------------------------------------------------------------------------
(* Lanes and vectors *)

Lanes == 0..3

W4(b0, b1, b2, b3) == 0 :> b0 @@ 1 :> b1 @@ 2 :> b2 @@ 3 :> b3

V4(w0, w1, w2, w3) == 0 :> w0 @@ 1 :> w1 @@ 2 :> w2 @@ 3 :> w3

\* the value of a lane read as a signed int (two's complement)
SInt(w) ==
  (IF w[0] >= 128 THEN w[0] - 256 ELSE w[0]) * 16777216
    + w[1] * 65536 + w[2] * 256 + w[3]

\* floor(log2(n)) for n >= 1, by halving the number of bits left
RECURSIVE Log2(_)
Log2(n) ==
  IF n >= 65536 THEN 16 + Log2(n \div 65536)
  ELSE IF n >= 256 THEN 8 + Log2(n \div 256)
  ELSE IF n >= 16 THEN 4 + Log2(n \div 16)
  ELSE IF n >= 4 THEN 2 + Log2(n \div 4)
  ELSE IF n >= 2 THEN 1
  ELSE 0

\* 2^n for 0 <= n <= 30, by squaring
RECURSIVE Pow2(_)
Pow2(n) ==
  IF n = 0 THEN 1
  ELSE LET h == Pow2(n \div 2)
       IN  IF n % 2 = 0 THEN h * h ELSE 2 * h * h

\* the IEEE-754 single precision pattern of the float literal n.0f,
\* for an integer 0 <= n < 2^24
F32(n) ==
  IF n = 0 THEN W4(0, 0, 0, 0)
  ELSE LET e  == Log2(n)
           m  == (n - Pow2(e)) * Pow2(23 - e)
           ex == 127 + e
       IN  W4(ex \div 2, (ex % 2) * 128 + m \div 65536,
              (m \div 256) % 256, m % 256)

\* the pattern of the int literal n, for -2^31 <= n < 2^31
I32(n) ==
  LET u0 == IF n < 0 THEN n + 2147483647 + 1 ELSE n
      hi == u0 \div 16777216 + (IF n < 0 THEN 128 ELSE 0)
  IN  W4(hi, (u0 \div 65536) % 256, (u0 \div 256) % 256, u0 % 256)

-----------------------------------------------------------------------------
(* Bitwise operations on bytes *)

RECURSIVE AndB(_, _)
AndB(x, y) ==
  IF x = 0 \/ y = 0 THEN 0
  ELSE (x % 2) * (y % 2) + 2 * AndB(x \div 2, y \div 2)

NotB(x) == 255 - x

OrB(x, y) == x + y - AndB(x, y)

XorB(x, y) == x + y - 2 * AndB(x, y)

-----------------------------------------------------------------------------
(* The AltiVec intrinsics the library is written in *)

vec_and(x, y) == [i \in Lanes |-> [k \in 0..3 |-> AndB(x[i][k], y[i][k])]]

vec_andc(x, y) ==
  [i \in Lanes |-> [k \in 0..3 |-> AndB(x[i][k], NotB(y[i][k]))]]

vec_or(x, y) == [i \in Lanes |-> [k \in 0..3 |-> OrB(x[i][k], y[i][k])]]

vec_xor(x, y) == [i \in Lanes |-> [k \in 0..3 |-> XorB(x[i][k], y[i][k])]]

\* each bit of the result comes from y where the bit of m is 1, else from x
vec_sel(x, y, m) ==
  [i \in Lanes |-> [k \in 0..3 |->
     OrB(AndB(x[i][k], NotB(m[i][k])), AndB(y[i][k], m[i][k]))]]

vec_cmpeq(x, y) ==
  [i \in Lanes |-> IF x[i] = y[i] THEN W4(255, 255, 255, 255)
                                  ELSE W4(0, 0, 0, 0)]

vec_cmpgt(x, y) ==
  [i \in Lanes |-> IF SInt(x[i]) > SInt(y[i]) THEN W4(255, 255, 255, 255)
                                              ELSE W4(0, 0, 0, 0)]

vec_cmplt(x, y) ==
  [i \in Lanes |-> IF SInt(x[i]) < SInt(y[i]) THEN W4(255, 255, 255, 255)
                                              ELSE W4(0, 0, 0, 0)]

vec_any_ne(x, y) == IF \E i \in Lanes : x[i] # y[i] THEN 1 ELSE 0

vec_all_ne(x, y) == IF \A i \in Lanes : x[i] # y[i] THEN 1 ELSE 0

vec_mergeh(x, y) == V4(x[0], y[0], x[1], y[1])

vec_mergel(x, y) == V4(x[2], y[2], x[3], y[3])

vec_splat(x, n) == [i \in Lanes |-> x[n]]

\* byte j of a vector
ByteOf(x, j) == x[j \div 4][j % 4]

\* byte j of the result is byte p[j] mod 32 of the 32 bytes x ++ y;
\* p is a vector of 16 bytes, here a sequence p[1]..p[16]
vec_perm(x, y, p) ==
  [i \in Lanes |-> [k \in 0..3 |->
     LET s == p[4 * i + k + 1] % 32
     IN  IF s < 16 THEN ByteOf(x, s) ELSE ByteOf(y, s - 16)]]

\* vec_ld and vec_st ignore the low four bits of the effective address
EA16(off, p) == (p + off) - ((p + off) % 16)

vec_ld(off, p, m) == [i \in Lanes |-> m[EA16(off, p) \div 4 + i]]

vec_st(x, off, p, m) ==
  [w \in DOMAIN m |->
     IF w \div 4 = EA16(off, p) \div 16 THEN x[w % 4] ELSE m[w]]

\* ((const float *)p)[k]
ld_f(p, k, m) == m[p \div 4 + k]

\* ((float *)p)[k] = w
st_f(p, k, w, m) == [m EXCEPT ![p \div 4 + k] = w]

-----------------------------------------------------------------------------
(* Constants of the library *)

P(i0, i1, i2, i3) ==
  << 4*i0, 4*i0+1, 4*i0+2, 4*i0+3,
     4*i1, 4*i1+1, 4*i1+2, 4*i1+3,
     4*i2, 4*i2+1, 4*i2+2, 4*i2+3,
     4*i3, 4*i3+1, 4*i3+2, 4*i3+3 >>

\* _perm[k] of the source is perm[k + 1]
perm == <<
    P(0,0,0,0), P(1,0,0,0), P(2,0,0,0), P(3,0,0,0),
    P(0,1,0,0), P(1,1,0,0), P(2,1,0,0), P(3,1,0,0),
    P(0,2,0,0), P(1,2,0,0), P(2,2,0,0), P(3,2,0,0),
    P(0,3,0,0), P(1,3,0,0), P(2,3,0,0), P(3,3,0,0),
    P(0,0,1,0), P(1,0,1,0), P(2,0,1,0), P(3,0,1,0),
    P(0,1,1,0), P(1,1,1,0), P(2,1,1,0), P(3,1,1,0),
    P(0,2,1,0), P(1,2,1,0), P(2,2,1,0), P(3,2,1,0),
    P(0,3,1,0), P(1,3,1,0), P(2,3,1,0), P(3,3,1,0),
    P(0,0,2,0), P(1,0,2,0), P(2,0,2,0), P(3,0,2,0),
    P(0,1,2,0), P(1,1,2,0), P(2,1,2,0), P(3,1,2,0),
    P(0,2,2,0), P(1,2,2,0), P(2,2,2,0), P(3,2,2,0),
    P(0,3,2,0), P(1,3,2,0), P(2,3,2,0), P(3,3,2,0),
    P(0,0,3,0), P(1,0,3,0), P(2,0,3,0), P(3,0,3,0),
    P(0,1,3,0), P(1,1,3,0), P(2,1,3,0), P(3,1,3,0),
    P(0,2,3,0), P(1,2,3,0), P(2,2,3,0), P(3,2,3,0),
    P(0,3,3,0), P(1,3,3,0), P(2,3,3,0), P(3,3,3,0),
    P(0,0,0,1), P(1,0,0,1), P(2,0,0,1), P(3,0,0,1),
    P(0,1,0,1), P(1,1,0,1), P(2,1,0,1), P(3,1,0,1),
    P(0,2,0,1), P(1,2,0,1), P(2,2,0,1), P(3,2,0,1),
    P(0,3,0,1), P(1,3,0,1), P(2,3,0,1), P(3,3,0,1),
    P(0,0,1,1), P(1,0,1,1), P(2,0,1,1), P(3,0,1,1),
    P(0,1,1,1), P(1,1,1,1), P(2,1,1,1), P(3,1,1,1),
    P(0,2,1,1), P(1,2,1,1), P(2,2,1,1), P(3,2,1,1),
    P(0,3,1,1), P(1,3,1,1), P(2,3,1,1), P(3,3,1,1),
    P(0,0,2,1), P(1,0,2,1), P(2,0,2,1), P(3,0,2,1),
    P(0,1,2,1), P(1,1,2,1), P(2,1,2,1), P(3,1,2,1),
    P(0,2,2,1), P(1,2,2,1), P(2,2,2,1), P(3,2,2,1),
    P(0,3,2,1), P(1,3,2,1), P(2,3,2,1), P(3,3,2,1),
    P(0,0,3,1), P(1,0,3,1), P(2,0,3,1), P(3,0,3,1),
    P(0,1,3,1), P(1,1,3,1), P(2,1,3,1), P(3,1,3,1),
    P(0,2,3,1), P(1,2,3,1), P(2,2,3,1), P(3,2,3,1),
    P(0,3,3,1), P(1,3,3,1), P(2,3,3,1), P(3,3,3,1),
    P(0,0,0,2), P(1,0,0,2), P(2,0,0,2), P(3,0,0,2),
    P(0,1,0,2), P(1,1,0,2), P(2,1,0,2), P(3,1,0,2),
    P(0,2,0,2), P(1,2,0,2), P(2,2,0,2), P(3,2,0,2),
    P(0,3,0,2), P(1,3,0,2), P(2,3,0,2), P(3,3,0,2),
    P(0,0,1,2), P(1,0,1,2), P(2,0,1,2), P(3,0,1,2),
    P(0,1,1,2), P(1,1,1,2), P(2,1,1,2), P(3,1,1,2),
    P(0,2,1,2), P(1,2,1,2), P(2,2,1,2), P(3,2,1,2),
    P(0,3,1,2), P(1,3,1,2), P(2,3,1,2), P(3,3,1,2),
    P(0,0,2,2), P(1,0,2,2), P(2,0,2,2), P(3,0,2,2),
    P(0,1,2,2), P(1,1,2,2), P(2,1,2,2), P(3,1,2,2),
    P(0,2,2,2), P(1,2,2,2), P(2,2,2,2), P(3,2,2,2),
    P(0,3,2,2), P(1,3,2,2), P(2,3,2,2), P(3,3,2,2),
    P(0,0,3,2), P(1,0,3,2), P(2,0,3,2), P(3,0,3,2),
    P(0,1,3,2), P(1,1,3,2), P(2,1,3,2), P(3,1,3,2),
    P(0,2,3,2), P(1,2,3,2), P(2,2,3,2), P(3,2,3,2),
    P(0,3,3,2), P(1,3,3,2), P(2,3,3,2), P(3,3,3,2),
    P(0,0,0,3), P(1,0,0,3), P(2,0,0,3), P(3,0,0,3),
    P(0,1,0,3), P(1,1,0,3), P(2,1,0,3), P(3,1,0,3),
    P(0,2,0,3), P(1,2,0,3), P(2,2,0,3), P(3,2,0,3),
    P(0,3,0,3), P(1,3,0,3), P(2,3,0,3), P(3,3,0,3),
    P(0,0,1,3), P(1,0,1,3), P(2,0,1,3), P(3,0,1,3),
    P(0,1,1,3), P(1,1,1,3), P(2,1,1,3), P(3,1,1,3),
    P(0,2,1,3), P(1,2,1,3), P(2,2,1,3), P(3,2,1,3),
    P(0,3,1,3), P(1,3,1,3), P(2,3,1,3), P(3,3,1,3),
    P(0,0,2,3), P(1,0,2,3), P(2,0,2,3), P(3,0,2,3),
    P(0,1,2,3), P(1,1,2,3), P(2,1,2,3), P(3,1,2,3),
    P(0,2,2,3), P(1,2,2,3), P(2,2,2,3), P(3,2,2,3),
    P(0,3,2,3), P(1,3,2,3), P(2,3,2,3), P(3,3,2,3),
    P(0,0,3,3), P(1,0,3,3), P(2,0,3,3), P(3,0,3,3),
    P(0,1,3,3), P(1,1,3,3), P(2,1,3,3), P(3,1,3,3),
    P(0,2,3,3), P(1,2,3,3), P(2,2,3,3), P(3,2,3,3),
    P(0,3,3,3), P(1,3,3,3), P(2,3,3,3), P(3,3,3,3) >>

v_false == V4(I32(0), I32(0), I32(0), I32(0))

v_true == V4(I32(-1), I32(-1), I32(-1), I32(-1))

v_ione == V4(I32(1), I32(1), I32(1), I32(1))

-----------------------------------------------------------------------------
(* v4 miscellaneous functions *)

\* any with the reduction of all
any_all_ne(x) == vec_all_ne(x, v_false)

any(x) == vec_any_ne(x, v_false)

all(x) == vec_all_ne(x, v_false)

\* splat counting the lanes from the other end
splat_rev(x, n) == vec_splat(x, 3 - n)

splat(x, n) == vec_splat(x, n)

\* shuffle with the table index built most significant index first
shuffle_rev(x, i0, i1, i2, i3) ==
  vec_perm(x, x, perm[i3 + i2*4 + i1*16 + i0*64 + 1])

shuffle(x, i0, i1, i2, i3) ==
  vec_perm(x, x, perm[i0 + i1*4 + i2*16 + i3*64 + 1])

\* transpose with step 1 interleaving neighbouring rows
transpose_adj(xa, xb, xc, xd) ==
  LET a1  == vec_mergeh(xa, xb)
      b1  == vec_mergeh(xc, xd)
      c1n == vec_mergel(xa, xb)
      d1n == vec_mergel(xc, xd)
  IN  << vec_mergeh(a1, b1), vec_mergel(a1, b1),
         vec_mergeh(c1n, d1n), vec_mergel(c1n, d1n) >>

\* transpose with the results of step 2 assigned to b and c the wrong way
transpose_bc(xa, xb, xc, xd) ==
  LET a1  == vec_mergeh(xa, xc)
      b1  == vec_mergeh(xb, xd)
      c1n == vec_mergel(xa, xc)
      d1n == vec_mergel(xb, xd)
  IN  << vec_mergeh(a1, b1), vec_mergeh(c1n, d1n),
         vec_mergel(a1, b1), vec_mergel(c1n, d1n) >>

\* the four references after the call, as <<a, b, c, d>>
transpose(xa, xb, xc, xd) ==
  LET a0  == xa
      b0  == xb
      c1  == xc
      d1  == xd
      a1  == vec_mergeh(a0, c1)
      b1  == vec_mergeh(b0, d1)
      c1n == vec_mergel(a0, c1)
      d1n == vec_mergel(b0, d1)
  IN  << vec_mergeh(a1, b1), vec_mergel(a1, b1),
         vec_mergeh(c1n, d1n), vec_mergel(c1n, d1n) >>

-----------------------------------------------------------------------------
(* v4 transposed memory manipulation functions.  A load returns the        *)
(* vectors it assigns, a store returns the memory after the call.          *)

load_4x1_tr(pa, pb, pc, pd, m) ==
  << V4(ld_f(pa, 0, m), ld_f(pb, 0, m), ld_f(pc, 0, m), ld_f(pd, 0, m)) >>

\* load_4x2_tr by whole-vector loads, as load_4x3_tr and load_4x4_tr do it
load_4x2_tr_ld(pa, pb, pc, pd, m) ==
  << V4(vec_ld(0, pa, m)[0], vec_ld(0, pb, m)[0],
        vec_ld(0, pc, m)[0], vec_ld(0, pd, m)[0]),
     V4(vec_ld(0, pa, m)[1], vec_ld(0, pb, m)[1],
        vec_ld(0, pc, m)[1], vec_ld(0, pd, m)[1]) >>

load_4x2_tr(pa, pb, pc, pd, m) ==
  << V4(ld_f(pa, 0, m), ld_f(pb, 0, m), ld_f(pc, 0, m), ld_f(pd, 0, m)),
     V4(ld_f(pa, 1, m), ld_f(pb, 1, m), ld_f(pc, 1, m), ld_f(pd, 1, m)) >>

load_4x3_tr(pa, pb, pc, pd, m) ==
  LET a0  == vec_ld(0, pa, m)
      b0  == vec_ld(0, pb, m)
      c1  == vec_ld(0, pc, m)
      d1  == vec_ld(0, pd, m)
      a1  == vec_mergeh(a0, c1)
      b1  == vec_mergeh(b0, d1)
      c1n == vec_mergel(a0, c1)
      d1n == vec_mergel(b0, d1)
  IN  << vec_mergeh(a1, b1), vec_mergel(a1, b1), vec_mergeh(c1n, d1n) >>

\* load_4x4_tr without the two interleaving steps
load_4x4_tr_rows(pa, pb, pc, pd, m) ==
  << vec_ld(0, pa, m), vec_ld(0, pb, m), vec_ld(0, pc, m), vec_ld(0, pd, m) >>

load_4x4_tr(pa, pb, pc, pd, m) ==
  LET a0  == vec_ld(0, pa, m)
      b0  == vec_ld(0, pb, m)
      c1  == vec_ld(0, pc, m)
      d1  == vec_ld(0, pd, m)
      a1  == vec_mergeh(a0, c1)
      b1  == vec_mergeh(b0, d1)
      c1n == vec_mergel(a0, c1)
      d1n == vec_mergel(b0, d1)
  IN  << vec_mergeh(a1, b1), vec_mergel(a1, b1),
         vec_mergeh(c1n, d1n), vec_mergel(c1n, d1n) >>

\* t.v = x; pa[k] = t.f[0]; pb[k] = t.f[1]; pc[k] = t.f[2]; pd[k] = t.f[3]
st_field(x, k, pa, pb, pc, pd, m) ==
  st_f(pd, k, x[3], st_f(pc, k, x[2], st_f(pb, k, x[1], st_f(pa, k, x[0], m))))

store_4x1_tr(xa, pa, pb, pc, pd, m) == st_field(xa, 0, pa, pb, pc, pd, m)

\* store_4x2_tr without the second t.v = b.v
store_4x2_tr_stale(xa, xb, pa, pb, pc, pd, m) ==
  st_field(xa, 1, pa, pb, pc, pd, st_field(xa, 0, pa, pb, pc, pd, m))

store_4x2_tr(xa, xb, pa, pb, pc, pd, m) ==
  st_field(xb, 1, pa, pb, pc, pd, st_field(xa, 0, pa, pb, pc, pd, m))

\* store_4x3_tr that also writes the fourth field of each record
store_4x3_tr_wide(xa, xb, xc, pa, pb, pc, pd, m) ==
  st_field(xc, 3, pa, pb, pc, pd,
    st_field(xc, 2, pa, pb, pc, pd,
      st_field(xb, 1, pa, pb, pc, pd, st_field(xa, 0, pa, pb, pc, pd, m))))

store_4x3_tr(xa, xb, xc, pa, pb, pc, pd, m) ==
  st_field(xc, 2, pa, pb, pc, pd,
    st_field(xb, 1, pa, pb, pc, pd, st_field(xa, 0, pa, pb, pc, pd, m)))

store_4x4_tr(xa, xb, xc, xd, pa, pb, pc, pd, m) ==
  LET a0  == xa
      b0  == xb
      c1  == xc
      d1  == xd
      a1  == vec_mergeh(a0, c1)
      b1  == vec_mergeh(b0, d1)
      c1n == vec_mergel(a0, c1)
      d1n == vec_mergel(b0, d1)
      m1  == vec_st(vec_mergeh(a1, b1), 0, pa, m)
      m2  == vec_st(vec_mergel(a1, b1), 0, pb, m1)
      m3  == vec_st(vec_mergeh(c1n, d1n), 0, pc, m2)
  IN  vec_st(vec_mergel(c1n, d1n), 0, pd, m3)

-----------------------------------------------------------------------------
(* v4int prefix unary and logical operators *)

\* operator !
op_lnot(x) == vec_cmpeq(v_false, x)

\* operator <
op_lt(x, y) == vec_cmplt(x, y)

\* operator >
op_gt(x, y) == vec_cmpgt(x, y)

\* operator ==
op_eq(x, y) == vec_cmpeq(x, y)

\* operator !=
op_ne(x, y) == vec_xor(v_true, vec_cmpeq(x, y))

\* operator <= with the comparison of operator >=
op_le_lt(x, y) == vec_xor(v_true, vec_cmplt(x, y))

\* operator <=
op_le(x, y) == vec_xor(v_true, vec_cmpgt(x, y))

\* operator >= with the comparison of operator <=
op_ge_gt(x, y) == vec_xor(v_true, vec_cmpgt(x, y))

\* operator >=
op_ge(x, y) == vec_xor(v_true, vec_cmplt(x, y))

\* operator && that stops at a false lane 0 of the left operand
op_land_sc(x, y) ==
  IF x[0] = v_false[0] THEN v_false
  ELSE vec_xor(v_true, vec_or(vec_cmpeq(x, v_false), vec_cmpeq(y, v_false)))

\* operator &&
op_land(x, y) ==
  vec_xor(v_true, vec_or(vec_cmpeq(x, v_false), vec_cmpeq(y, v_false)))

\* operator ||
op_lor(x, y) ==
  vec_xor(v_true, vec_and(vec_cmpeq(x, v_false), vec_cmpeq(y, v_false)))

LogicalOps == {"<", ">", "==", "!=", "<=", ">=", "&&", "||"}

\* the operator the LOGICAL macro defines for op
LOGICAL(op, x, y) ==
  CASE op = "<"  -> op_lt(x, y)
    [] op = ">"  -> op_gt(x, y)
    [] op = "==" -> op_eq(x, y)
    [] op = "!=" -> op_ne(x, y)
    [] op = "<=" -> op_le(x, y)
    [] op = ">=" -> op_ge(x, y)
    [] op = "&&" -> op_land(x, y)
    [] op = "||" -> op_lor(x, y)

-----------------------------------------------------------------------------
(* v4int miscellaneous functions *)

\* czero without the complement
czero_and(m, x) == vec_and(x, m)

czero(m, x) == vec_andc(x, m)

notczero(m, x) == vec_and(x, m)

\* merge with the two value operands of vec_sel exchanged
merge_swapped(m, t, f) == vec_sel(t, f, m)

merge(m, t, f) == vec_sel(f, t, m)

-----------------------------------------------------------------------------
(* Operands *)

LaneTable ==
  << I32(0), I32(-1), I32(1), I32(-2147483647 - 1), I32(2147483647),
     F32(1), W4(0, 255, 255, 0), W4(1, 0, 0, 0), W4(255, 0, 0, 0) >>

LaneVal(k) == LaneTable[(k % Len(LaneTable)) + 1]

\* four consecutive sample values, starting at the k-th
Rot(k) == [i \in Lanes |-> LaneVal((k + i) % NVals)]

\* the boolean vector whose lane i is true iff bit i of n is set
MaskOf(n) ==
  [i \in Lanes |-> IF (n \div Pow2(i)) % 2 = 1 THEN I32(-1) ELSE I32(0)]

\* the 16 boolean vectors, then vectors that are not boolean
CondOf(n) == IF n < 16 THEN MaskOf(n) ELSE Rot(n - 16)

\* v4float( f0, f1, f2, f3 )
v4float4(f0, f1, f2, f3) == V4(F32(f0), F32(f1), F32(f2), F32(f3))

Matrix(n) ==
  IF n = 0
  THEN << v4float4(0, 1, 2, 3), v4float4(4, 5, 6, 7),
          v4float4(8, 9, 10, 11), v4float4(12, 13, 14, 15) >>
  ELSE << Rot(n), Rot(n + 2), Rot(n + 3), Rot(n + 5) >>

MemWords == 4 * MemBlocks

Mem0 == [w \in 0..(MemWords - 1) |-> W4(170, 187, 0, w)]

\* the record pointers of a call: 16-byte aligned records; 8-byte aligned
\* records in another order; four consecutive words
PtrTuples == { <<0, 16, 32, 48>>, <<40, 8, 56, 24>>, <<0, 4, 8, 12>> }

NoStore == [K |-> 0, p |-> <<>>, v |-> <<>>]

\* no build script runs while the library is exercised
NoBuild == lineno = 0 /\ env = << >> /\ cache = << >> /\ path = << >>

-----------------------------------------------------------------------------
(* In-place and memory operations on the objects a, b, c, d *)

Init ==
  /\ \E n \in 0..(NMats - 1) :
       /\ a = Matrix(n)[1]
       /\ b = Matrix(n)[2]
       /\ c = Matrix(n)[3]
       /\ d = Matrix(n)[4]
  /\ mem = Mem0
  /\ r = v_false
  /\ ret = 0
  /\ last = [op |-> "init"]
  /\ lastStore = NoStore
  /\ NoBuild
  /\ nops = 0

Call_transpose ==
  /\ nops < MaxOps
  /\ LET t == transpose(a, b, c, d)
     IN  /\ a' = t[1]
         /\ b' = t[2]
         /\ c' = t[3]
         /\ d' = t[4]
  /\ last' = [op |-> "transpose", pre |-> <<a, b, c, d>>, premem |-> mem]
  /\ nops' = nops + 1
  /\ UNCHANGED <<build, mem, r, ret, lastStore>>

LoadRec(K, p) ==
  [op |-> "load_tr", K |-> K, p |-> p, pre |-> <<a, b, c, d>>, premem |-> mem]

Call_load_4x1_tr ==
  /\ nops < MaxOps
  /\ \E p \in PtrTuples :
       /\ a' = load_4x1_tr(p[1], p[2], p[3], p[4], mem)[1]
       /\ last' = LoadRec(1, p)
  /\ nops' = nops + 1
  /\ UNCHANGED <<build, b, c, d, mem, r, ret, lastStore>>

Call_load_4x2_tr ==
  /\ nops < MaxOps
  /\ \E p \in PtrTuples :
       /\ LET t == load_4x2_tr(p[1], p[2], p[3], p[4], mem)
          IN  /\ a' = t[1]
              /\ b' = t[2]
       /\ last' = LoadRec(2, p)
  /\ nops' = nops + 1
  /\ UNCHANGED <<build, c, d, mem, r, ret, lastStore>>

Call_load_4x3_tr ==
  /\ nops < MaxOps
  /\ \E p \in PtrTuples :
       /\ LET t == load_4x3_tr(p[1], p[2], p[3], p[4], mem)
          IN  /\ a' = t[1]
              /\ b' = t[2]
              /\ c' = t[3]
       /\ last' = LoadRec(3, p)
  /\ nops' = nops + 1
  /\ UNCHANGED <<build, d, mem, r, ret, lastStore>>

Call_load_4x4_tr ==
  /\ nops < MaxOps
  /\ \E p \in PtrTuples :
       /\ LET t == load_4x4_tr(p[1], p[2], p[3], p[4], mem)
          IN  /\ a' = t[1]
              /\ b' = t[2]
              /\ c' = t[3]
              /\ d' = t[4]
       /\ last' = LoadRec(4, p)
  /\ nops' = nops + 1
  /\ UNCHANGED <<build, mem, r, ret, lastStore>>

StoreRec(K, p) ==
  [op |-> "store_tr", K |-> K, p |-> p, pre |-> <<a, b, c, d>>, premem |-> mem]

Call_store_4x1_tr ==
  /\ nops < MaxOps
  /\ \E p \in PtrTuples :
       /\ mem' = store_4x1_tr(a, p[1], p[2], p[3], p[4], mem)
       /\ last' = StoreRec(1, p)
       /\ lastStore' = [K |-> 1, p |-> p, v |-> <<a>>]
  /\ nops' = nops + 1
  /\ UNCHANGED <<build, a, b, c, d, r, ret>>

Call_store_4x2_tr ==
  /\ nops < MaxOps
  /\ \E p \in PtrTuples :
       /\ mem' = store_4x2_tr(a, b, p[1], p[2], p[3], p[4], mem)
       /\ last' = StoreRec(2, p)
       /\ lastStore' = [K |-> 2, p |-> p, v |-> <<a, b>>]
  /\ nops' = nops + 1
  /\ UNCHANGED <<build, a, b, c, d, r, ret>>

Call_store_4x3_tr ==
  /\ nops < MaxOps
  /\ \E p \in PtrTuples :
       /\ mem' = store_4x3_tr(a, b, c, p[1], p[2], p[3], p[4], mem)
       /\ last' = StoreRec(3, p)
       /\ lastStore' = [K |-> 3, p |-> p, v |-> <<a, b, c>>]
  /\ nops' = nops + 1
  /\ UNCHANGED <<build, a, b, c, d, r, ret>>

Call_store_4x4_tr ==
  /\ nops < MaxOps
  /\ \E p \in PtrTuples :
       /\ mem' = store_4x4_tr(a, b, c, d, p[1], p[2], p[3], p[4], mem)
       /\ last' = StoreRec(4, p)
       /\ lastStore' = [K |-> 4, p |-> p, v |-> <<a, b, c, d>>]
  /\ nops' = nops + 1
  /\ UNCHANGED <<build, a, b, c, d, r, ret>>

Next ==
  \/ Call_transpose
  \/ Call_load_4x1_tr
  \/ Call_load_4x2_tr
  \/ Call_load_4x3_tr
  \/ Call_load_4x4_tr
  \/ Call_store_4x1_tr
  \/ Call_store_4x2_tr
  \/ Call_store_4x3_tr
  \/ Call_store_4x4_tr

Spec == Init /\ [][Next]_vars

-----------------------------------------------------------------------------
(* Functions that return their result by value, applied to the objects     *)
(* a, b (operands) and c (condition).  A run is one call; nops counts it.  *)

InitFn ==
  /\ \E i, j \in 0..(NVals - 1) :
       /\ a = Rot(i)
       /\ b = Rot(j)
       /\ c = CondOf((i * NVals + j) % (16 + NVals))
  /\ d = Rot(0)
  /\ mem = Mem0
  /\ r = v_false
  /\ ret = 0
  /\ last = [op |-> "init"]
  /\ lastStore = NoStore
  /\ NoBuild
  /\ nops = 0

Call_any ==
  /\ nops = 0
  /\ \E x \in {a, c} :
       /\ ret' = any(x)
       /\ last' = [op |-> "any", x |-> x]
  /\ nops' = 1
  /\ UNCHANGED <<build, a, b, c, d, mem, r, lastStore>>

Call_all ==
  /\ nops = 0
  /\ \E x \in {a, c} :
       /\ ret' = all(x)
       /\ last' = [op |-> "all", x |-> x]
  /\ nops' = 1
  /\ UNCHANGED <<build, a, b, c, d, mem, r, lastStore>>

Call_splat ==
  /\ nops = 0
  /\ \E n \in 0..3 :
       /\ r' = splat(a, n)
       /\ last' = [op |-> "splat", x |-> a, n |-> n]
  /\ nops' = 1
  /\ UNCHANGED <<build, a, b, c, d, mem, ret, lastStore>>

Call_shuffle ==
  /\ nops = 0
  /\ \E i0, i1, i2, i3 \in 0..3 :
       /\ r' = shuffle(a, i0, i1, i2, i3)
       /\ last' = [op |-> "shuffle", x |-> a, i |-> <<i0, i1, i2, i3>>]
  /\ nops' = 1
  /\ UNCHANGED <<build, a, b, c, d, mem, ret, lastStore>>

Call_czero ==
  /\ nops = 0
  /\ r' = czero(c, a)
  /\ last' = [op |-> "czero", m |-> c, x |-> a]
  /\ nops' = 1
  /\ UNCHANGED <<build, a, b, c, d, mem, ret, lastStore>>

Call_notczero ==
  /\ nops = 0
  /\ r' = notczero(c, a)
  /\ last' = [op |-> "notczero", m |-> c, x |-> a]
  /\ nops' = 1
  /\ UNCHANGED <<build, a, b, c, d, mem, ret, lastStore>>

Call_merge ==
  /\ nops = 0
  /\ r' = merge(c, a, b)
  /\ last' = [op |-> "merge", m |-> c, t |-> a, f |-> b]
  /\ nops' = 1
  /\ UNCHANGED <<build, a, b, c, d, mem, ret, lastStore>>

Call_lnot ==
  /\ nops = 0
  /\ r' = op_lnot(a)
  /\ last' = [op |-> "!", x |-> a]
  /\ nops' = 1
  /\ UNCHANGED <<build, a, b, c, d, mem, ret, lastStore>>

Call_LOGICAL ==
  /\ nops = 0
  /\ \E op \in LogicalOps :
       /\ r' = LOGICAL(op, a, b)
       /\ last' = [op |-> op, x |-> a, y |-> b]
  /\ nops' = 1
  /\ UNCHANGED <<build, a, b, c, d, mem, ret, lastStore>>

NextFn ==
  \/ Call_any
  \/ Call_all
  \/ Call_splat
  \/ Call_shuffle
  \/ Call_czero
  \/ Call_notczero
  \/ Call_merge
  \/ Call_lnot
  \/ Call_LOGICAL

SpecFn == InitFn /\ [][NextFn]_vars

-----------------------------------------------------------------------------
(* Properties *)

TRUE32 == W4(255, 255, 255, 255)

FALSE32 == W4(0, 0, 0, 0)

\* each lane all-ones or all-zero
IsBool(x) == \A i \in Lanes : x[i] \in {TRUE32, FALSE32}

\* the objects a, b, c, d as the arguments 0..3 of a call
Objs == [i \in Lanes |-> <<a, b, c, d>>[i + 1]]

\* C1: after transpose(a,b,c,d), lane j of the i-th argument is the original
\* lane i of the j-th argument; (0,1,2,3), (4,5,6,7), (8,9,10,11),
\* (12,13,14,15) become (0,4,8,12), (1,5,9,13), (2,6,10,14), (3,7,11,15).
C1_Transpose ==
  last.op = "transpose" =>
    /\ \A i, j \in Lanes : Objs[i][j] = last.pre[j + 1][i]
    /\ last.pre = Matrix(0) =>
         /\ a = v4float4(0, 4, 8, 12)
         /\ b = v4float4(1, 5, 9, 13)
         /\ c = v4float4(2, 6, 10, 14)
         /\ d = v4float4(3, 7, 11, 15)

\* transpose has just been applied to the sixteen distinct floats 0..15
C1_Witness ==
  /\ last.op = "transpose"
  /\ last.pre = Matrix(0)
  /\ a = v4float4(0, 4, 8, 12)
  /\ Cardinality({last.pre[i + 1][j] : i, j \in Lanes}) = 16

\* C2: a second transpose of the same four objects, in the same order,
\* restores what they held before the first.
C2_TransposeTwice ==
  [][(last.op = "transpose" /\ last'.op = "transpose")
       => <<a', b', c', d'>> = last.pre]_vars

\* two transposes in a row have brought the floats 0..15 back
C2_Witness ==
  /\ last.op = "transpose"
  /\ nops = 2
  /\ last.pre[1] = v4float4(0, 4, 8, 12)
  /\ <<a, b, c, d>> = Matrix(0)

\* alignment a K-field transposed access asks of its record pointers
AlignOf(K) == IF K = 1 THEN 4 ELSE IF K = 2 THEN 8 ELSE 16

\* bytes of a record a K-field transposed access touches
ExtentOf(K) == IF K = 1 THEN 4 ELSE IF K = 2 THEN 8 ELSE 16

\* four distinct, non-overlapping, suitably aligned record pointers
ValidPtrs(K, p) ==
  /\ \A n \in 1..4 : p[n] % AlignOf(K) = 0
  /\ \A n, q \in 1..4 :
       n # q => (p[n] + ExtentOf(K) <= p[q] \/ p[q] + ExtentOf(K) <= p[n])

\* C3: load_4xK_tr from the four pointers store_4xK_tr has just written
\* returns the K stored vectors; lane n of the k-th vector is field k of
\* record n.
C3_StoreLoadRoundTrip ==
  (/\ last.op = "load_tr"
   /\ lastStore.K = last.K
   /\ lastStore.p = last.p
   /\ ValidPtrs(last.K, last.p)) =>
    \A k \in 1..last.K :
      /\ <<a, b, c, d>>[k] = lastStore.v[k]
      /\ \A n \in Lanes :
           <<a, b, c, d>>[k][n] = mem[last.p[n + 1] \div 4 + k - 1]

\* three vectors were stored, the objects were overwritten, and the load
\* from the same records has brought the three vectors back
C3_Witness ==
  /\ last.op = "load_tr"
  /\ last.K = 3
  /\ lastStore.K = 3
  /\ lastStore.p = last.p
  /\ ValidPtrs(3, last.p)
  /\ \A k \in 1..3 : last.pre[k] # lastStore.v[k]
  /\ <<a, b, c>> = lastStore.v

\* C4: for a boolean mask, merge(c,t,f) has the lane of t where the mask
\* lane is all-ones and the lane of f where it is all-zero; with an all-true
\* mask it is t, with an all-false mask it is f.
C4_Merge ==
  (last.op = "merge" /\ IsBool(last.m)) =>
    /\ \A i \in Lanes :
         r[i] = IF last.m[i] = TRUE32 THEN last.t[i] ELSE last.f[i]
    /\ last.m = v_true => r = last.t
    /\ last.m = v_false => r = last.f

\* merge has been called with a mask of true and false lanes and has taken
\* lanes from both operands
C4_Witness ==
  /\ last.op = "merge"
  /\ last.m = MaskOf(5)
  /\ \A i \in Lanes : last.t[i] # last.f[i]
  /\ r = V4(last.t[0], last.f[1], last.t[2], last.f[3])

\* C5: for a boolean mask, czero(c,a) is zero in the true lanes and a in
\* the false lanes; notczero(c,a) is zero in the false lanes and a in the
\* true lanes.
C5_CzeroNotczero ==
  /\ (last.op = "czero" /\ IsBool(last.m)) =>
       \A i \in Lanes :
         r[i] = IF last.m[i] = TRUE32 THEN FALSE32 ELSE last.x[i]
  /\ (last.op = "notczero" /\ IsBool(last.m)) =>
       \A i \in Lanes :
         r[i] = IF last.m[i] = FALSE32 THEN FALSE32 ELSE last.x[i]

\* czero has been called with a mask of true and false lanes on a vector
\* without a zero lane
C5_Witness ==
  /\ last.op = "czero"
  /\ IsBool(last.m)
  /\ \E i, j \in Lanes : last.m[i] = TRUE32 /\ last.m[j] = FALSE32
  /\ \A i \in Lanes : last.x[i] # FALSE32
  /\ \E i, j \in Lanes : r[i] = FALSE32 /\ r[j] = last.x[j]

\* C6: lane k of shuffle(a,i0,i1,i2,i3) is lane i_k of a, for each of the
\* 256 index tuples; shuffle(a,0,1,2,3) is a.
C6_Shuffle ==
  last.op = "shuffle" =>
    /\ \A k \in Lanes : r[k] = last.x[last.i[k + 1]]
    /\ last.i = <<0, 1, 2, 3>> => r = last.x

\* shuffle has been called with a repeated index on four distinct lanes
C6_Witness ==
  /\ last.op = "shuffle"
  /\ last.i = <<3, 0, 2, 2>>
  /\ Cardinality({last.x[k] : k \in Lanes}) = 4
  /\ r = V4(last.x[3], last.x[0], last.x[2], last.x[2])

\* C7: every lane of splat(a,n) is lane n of a, and a is unchanged.
C7_Splat ==
  last.op = "splat" =>
    /\ \A i \in Lanes : r[i] = last.x[last.n]
    /\ a = last.x

\* splat has broadcast lane 2 of four distinct lanes
C7_Witness ==
  /\ last.op = "splat"
  /\ last.n = 2
  /\ Cardinality({last.x[k] : k \in Lanes}) = 4
  /\ r = V4(a[2], a[2], a[2], a[2])

\* C8: any(a) is true exactly when some lane of a is a nonzero pattern,
\* all(a) exactly when every lane is; all(a) implies any(a); on a boolean
\* vector they are the OR and the AND of the lanes.
C8_AnyAll ==
  /\ last.op = "any" =>
       /\ ret # 0 <=> \E i \in Lanes : last.x[i] # FALSE32
       /\ IsBool(last.x) => (ret # 0 <=> \E i \in Lanes : last.x[i] = TRUE32)
  /\ last.op = "all" =>
       /\ ret # 0 <=> \A i \in Lanes : last.x[i] # FALSE32
       /\ IsBool(last.x) => (ret # 0 <=> \A i \in Lanes : last.x[i] = TRUE32)
       /\ ret # 0 => any(last.x) # 0

\* any has returned true for a vector with a zero lane
C8_Witness ==
  /\ last.op = "any"
  /\ ret # 0
  /\ \E i \in Lanes : last.x[i] = FALSE32

\* the low 24 bits of a lane
U24(w) == w[1] * 65536 + w[2] * 256 + w[3]

\* x < y as signed 32-bit integers: compare with the sign bit inverted
SLess(x, y) ==
  LET hx == (x[0] + 128) % 256
      hy == (y[0] + 128) % 256
  IN  hx < hy \/ (hx = hy /\ U24(x) < U24(y))

\* the relation a v4int operator decides in one lane
Holds(op, x, y) ==
  CASE op = "<"  -> SLess(x, y)
    [] op = ">"  -> SLess(y, x)
    [] op = "==" -> x = y
    [] op = "!=" -> x # y
    [] op = "<=" -> ~SLess(y, x)
    [] op = ">=" -> ~SLess(x, y)
    [] op = "&&" -> x # FALSE32 /\ y # FALSE32
    [] op = "||" -> x # FALSE32 \/ y # FALSE32

Comparisons == {"<", ">", "==", "!=", "<=", ">="}

\* C9: the result of a v4int comparison, of !, && and || is a boolean
\* vector, and a comparison's lane is all-ones exactly when the signed
\* relation holds for the lane pair.
C9_BooleanResults ==
  /\ last.op \in LogicalOps \cup {"!"} => IsBool(r)
  /\ last.op \in Comparisons =>
       \A i \in Lanes : r[i] = TRUE32 <=> Holds(last.op, last.x[i], last.y[i])
  /\ last.op = "!" =>
       \A i \in Lanes : r[i] = TRUE32 <=> last.x[i] = FALSE32

\* <= has been called on a lane pair negative, positive and on a lane pair
\* where it does not hold
C9_Witness ==
  /\ last.op = "<="
  /\ \E i \in Lanes :
       last.x[i][0] >= 128 /\ last.y[i][0] < 128 /\ r[i] = TRUE32
  /\ \E i \in Lanes : r[i] = FALSE32

\* C10: lane k of a && b is all-ones iff lane k of a and lane k of b are
\* both nonzero, lane k of a || b iff one of them is nonzero, whatever the
\* other lanes hold.
C10_LanewiseAndOr ==
  last.op \in {"&&", "||"} =>
    \A k \in Lanes :
      /\ r[k] \in {TRUE32, FALSE32}
      /\ r[k] = TRUE32 <=> Holds(last.op, last.x[k], last.y[k])

\* && has been called with a zero lane 0 in its left operand and has a
\* true lane after it
C10_Witness ==
  /\ last.op = "&&"
  /\ last.x[0] = FALSE32
  /\ r[0] = FALSE32
  /\ \E k \in 1..3 : r[k] = TRUE32

-----------------------------------------------------------------------------
(* Integer arithmetic on lanes.  A lane is too wide for one number of the  *)
(* checker, so sums and products are formed byte by byte, least            *)
(* significant byte (w[3]) first.                                          *)

\* x + y + cin modulo 2^32
AddW(x, y, cin) ==
  LET s3 == x[3] + y[3] + cin
      s2 == x[2] + y[2] + s3 \div 256
      s1 == x[1] + y[1] + s2 \div 256
      s0 == x[0] + y[0] + s1 \div 256
  IN  W4(s0 % 256, s1 % 256, s2 % 256, s3 % 256)

NotW(x) == [k \in 0..3 |-> NotB(x[k])]

\* x - y modulo 2^32
SubW(x, y) == AddW(x, NotW(y), 1)

\* byte k of x counted from the least significant one; 0 beyond the lane
LoByte(x, k) == IF k \in 0..3 THEN x[3 - k] ELSE 0

\* the column sums of the schoolbook product of two unsigned lanes
MulCol(x, y, k) ==
  LET Term(i) == LoByte(x, i) * LoByte(y, k - i)
  IN  Term(0) + Term(1) + Term(2) + Term(3)

\* the 64-bit product of two unsigned lanes, as eight bytes p[0] (least
\* significant) .. p[7]
RECURSIVE MulBytes(_, _, _, _)
MulBytes(x, y, k, carry) ==
  IF k = 8 THEN << >>
  ELSE LET t == MulCol(x, y, k) + carry
       IN  <<t % 256>> \o MulBytes(x, y, k + 1, t \div 256)

\* x * y modulo 2^32, what a 32-bit multiply instruction leaves
MulW(x, y) ==
  LET p == MulBytes(x, y, 0, 0) IN W4(p[4], p[3], p[2], p[1])

IsNeg(x) == x[0] >= 128

\* |x| as an unsigned lane (2^31 for INT_MIN)
MagW(x) == IF IsNeg(x) THEN SubW(W4(0, 0, 0, 0), x) ELSE x

\* the int product x * y is not an int: signed overflow
MulOverflows(x, y) ==
  LET p  == MulBytes(MagW(x), MagW(y), 0, 0)
      hi == p[5] + p[6] + p[7] + p[8]
  IN  \/ hi # 0
      \/ p[4] > 128
      \/ p[4] = 128 /\ (p[3] + p[2] + p[1] # 0 \/ IsNeg(x) = IsNeg(y))

IntMin == -2147483647 - 1

\* the int quotient x / y of C (rounded towards zero), for y # 0 and
\* not (x = INT_MIN and y = -1)
QuotI(x, y) ==
  LET Pos(n, q) == IF n >= 0 THEN n \div q
                   ELSE (n \div q) + (IF n % q # 0 THEN 1 ELSE 0)
  IN  IF y > 0 THEN Pos(x, y)
      ELSE IF y = IntMin THEN (IF x = IntMin THEN 1 ELSE 0)
      ELSE -Pos(x, -y)

\* the int remainder x % y of C: x - (x / y) * y
RemI(x, y) ==
  IF y = IntMin THEN (IF x = IntMin THEN 0 ELSE x)
  ELSE LET q == IF y > 0 THEN y ELSE -y
           m == x % q
       IN  IF x >= 0 \/ m = 0 THEN m ELSE m - q

\* x * 2^n modulo 2^32, for 0 <= n <= 31: whole bytes, then bits
ShlN(x, n) ==
  LET q == n \div 8
      p == Pow2(n % 8)
      B(k) == ((LoByte(x, k - q) * p) % 256) + ((LoByte(x, k - q - 1) * p) \div 256)
  IN  W4(B(3), B(2), B(1), B(0))

\* x \div 2^n for the unsigned lane x, for 0 <= n <= 31: zeros come in
\* from the left
ShrN(x, n) ==
  LET q == n \div 8
      p == Pow2(n % 8)
      B(k) == (LoByte(x, k + q) \div p) + (((LoByte(x, k + q + 1) * 256) \div p) % 256)
  IN  W4(B(3), B(2), B(1), B(0))

\* the shift count of a lane: its low five bits
ShCount(y) == y[3] % 32

-----------------------------------------------------------------------------
(* More AltiVec intrinsics *)

vec_add(x, y) == [i \in Lanes |-> AddW(x[i], y[i], 0)]

vec_sub(x, y) == [i \in Lanes |-> SubW(x[i], y[i])]

vec_sl(x, y) == [i \in Lanes |-> ShlN(x[i], ShCount(y[i]))]

\* vec_sr shifts zeros in from the left, also in a vector of signed int
vec_sr(x, y) == [i \in Lanes |-> ShrN(x[i], ShCount(y[i]))]

\* vec_abs is modular: the absolute value of INT_MIN is INT_MIN
vec_abs(x) ==
  [i \in Lanes |-> IF IsNeg(x[i]) THEN SubW(W4(0, 0, 0, 0), x[i]) ELSE x[i]]

-----------------------------------------------------------------------------
(* v4int arithmetic.  The scalarized operators compute int * int, int / int *)
(* and int % int lane by lane.  In C++ these are undefined for a product   *)
(* that overflows, a zero divisor and INT_MIN / -1 (or % -1); what the     *)
(* build then does is the choice o: it traps, or the lane holds some       *)
(* value, which for a product may be the one a multiply instruction        *)
(* leaves.  An operator yields [v, ub, trap]: the vector returned, whether *)
(* the call had undefined behaviour, whether it trapped (then v is void).  *)

\* what an undefined scalar operation can do: trap, leave what the
\* instruction leaves ("wrap"), or leave some other value
UBOutcomes == {"trap", "wrap", "zero", "ones"}

\* t.i[k] op u.i[k] is undefined
LaneUB(op, x, y) ==
  CASE op = "*" -> MulOverflows(x, y)
    [] op \in {"/", "%"} ->
         \/ y = W4(0, 0, 0, 0)
         \/ x = W4(128, 0, 0, 0) /\ y = W4(255, 255, 255, 255)

\* t.i[k] op u.i[k] where it is defined
LaneDef(op, x, y) ==
  CASE op = "*" -> MulW(x, y)
    [] op = "/" -> I32(QuotI(SInt(x), SInt(y)))
    [] op = "%" -> I32(RemI(SInt(x), SInt(y)))

\* what the lane holds after an undefined t.i[k] op u.i[k]
LaneUndef(op, x, y, o) ==
  CASE o = "zero" -> W4(0, 0, 0, 0)
    [] o = "ones" -> W4(255, 255, 255, 255)
    [] OTHER -> IF op = "*" THEN MulW(x, y) ELSE x

Defined(v) == [v |-> v, ub |-> FALSE, trap |-> FALSE]

\* (_v4_int){ t.i[0] op u.i[0], t.i[1] op u.i[1], t.i[2] op u.i[2],
\*            t.i[3] op u.i[3] }
Scalarized(op, x, y, o) ==
  LET ub == \E i \in Lanes : LaneUB(op, x[i], y[i])
  IN  [v    |-> [i \in Lanes |->
                   IF LaneUB(op, x[i], y[i]) THEN LaneUndef(op, x[i], y[i], o)
                   ELSE LaneDef(op, x[i], y[i])],
       ub   |-> ub,
       trap |-> ub /\ o = "trap"]

BinaryOps == {"+", "-", "*", "/", "%", "^", "&", "|", "<<", ">>"}

\* the operator the BINARY macro defines for op (v4int)
BINARY(op, x, y, o) ==
  CASE op = "+"  -> Defined(vec_add(x, y))
    [] op = "-"  -> Defined(vec_sub(x, y))
    [] op = "*"  -> Scalarized("*", x, y, o)
    [] op = "/"  -> Scalarized("/", x, y, o)
    [] op = "%"  -> Scalarized("%", x, y, o)
    [] op = "^"  -> Defined(vec_xor(x, y))
    [] op = "&"  -> Defined(vec_and(x, y))
    [] op = "|"  -> Defined(vec_or(x, y))
    [] op = "<<" -> Defined(vec_sl(x, y))
    [] op = ">>" -> Defined(vec_sr(x, y))

AssignOps == {"+=", "-=", "*=", "/=", "%=", "^=", "&=", "|=", "<<=", ">>="}

\* operator -= with the instruction of +=
ASSIGN_add(op, x, y, o) ==
  CASE op = "+="  -> Defined(vec_add(x, y))
    [] op = "-="  -> Defined(vec_add(x, y))
    [] op = "*="  -> Scalarized("*", x, y, o)
    [] op = "/="  -> Scalarized("/", x, y, o)
    [] op = "%="  -> Scalarized("%", x, y, o)
    [] op = "^="  -> Defined(vec_xor(x, y))
    [] op = "&="  -> Defined(vec_and(x, y))
    [] op = "|="  -> Defined(vec_or(x, y))
    [] op = "<<=" -> Defined(vec_sl(x, y))
    [] op = ">>=" -> Defined(vec_sr(x, y))

\* the value the ASSIGN macro's operator op leaves in the receiver x (v4int)
ASSIGN(op, x, y, o) ==
  CASE op = "+="  -> Defined(vec_add(x, y))
    [] op = "-="  -> Defined(vec_sub(x, y))
    [] op = "*="  -> Scalarized("*", x, y, o)
    [] op = "/="  -> Scalarized("/", x, y, o)
    [] op = "%="  -> Scalarized("%", x, y, o)
    [] op = "^="  -> Defined(vec_xor(x, y))
    [] op = "&="  -> Defined(vec_and(x, y))
    [] op = "|="  -> Defined(vec_or(x, y))
    [] op = "<<=" -> Defined(vec_sl(x, y))
    [] op = ">>=" -> Defined(vec_sr(x, y))

PrefixOps == {"+", "-", "~"}

\* the operator the PREFIX_UNARY macro defines for op (v4int); ! is op_lnot
PREFIX_UNARY(op, x) ==
  CASE op = "+" -> x
    [] op = "-" -> vec_sub(v_false, x)
    [] op = "~" -> vec_xor(v_true, x)

abs(x) == vec_abs(x)

-----------------------------------------------------------------------------
(* Natural numbers of any size, for exact products and sums of             *)
(* significands: sequences of digits base 4096, least significant first,   *)
(* without leading zero digits (the empty sequence is 0).                  *)

Base == 4096

\* the largest member of a nonempty set of numbers
MaxOf(S) == CHOOSE k \in S : \A j \in S : j <= k

\* x without its leading zero digits
BStrip(x) ==
  LET nz == {i \in 1..Len(x) : x[i] # 0}
  IN  IF nz = {} THEN << >> ELSE SubSeq(x, 1, MaxOf(nz))

RECURSIVE BN(_)
BN(n) == IF n = 0 THEN << >> ELSE <<n % Base>> \o BN(n \div Base)

RECURSIVE BToInt(_)
BToInt(x) == IF x = << >> THEN 0 ELSE x[1] + Base * BToInt(Tail(x))

Dig(x, i) == IF i <= Len(x) THEN x[i] ELSE 0

\* digits lo..hi of x + y + carry and the carry out of them; the range is
\* halved so that the nesting grows with the logarithm of its length
RECURSIVE BAddC(_, _, _, _, _)
BAddC(x, y, lo, hi, carry) ==
  IF lo = hi
  THEN LET t == Dig(x, lo) + Dig(y, lo) + carry
       IN  [d |-> <<t % Base>>, c |-> t \div Base]
  ELSE LET mid == (lo + hi) \div 2
           L   == BAddC(x, y, lo, mid, carry)
           H   == BAddC(x, y, mid + 1, hi, L.c)
       IN  [d |-> L.d \o H.d, c |-> H.c]

BAdd(x, y) ==
  LET n == IF Len(x) > Len(y) THEN Len(x) ELSE Len(y)
  IN  IF n = 0 THEN << >>
      ELSE LET t == BAddC(x, y, 1, n, 0)
           IN  IF t.c = 0 THEN t.d ELSE Append(t.d, t.c)

\* digits lo..hi of x - y - borrow and the borrow out of them
RECURSIVE BSubC(_, _, _, _, _)
BSubC(x, y, lo, hi, borrow) ==
  IF lo = hi
  THEN LET t == Dig(x, lo) - Dig(y, lo) - borrow
       IN  IF t < 0 THEN [d |-> <<t + Base>>, c |-> 1] ELSE [d |-> <<t>>, c |-> 0]
  ELSE LET mid == (lo + hi) \div 2
           L   == BSubC(x, y, lo, mid, borrow)
           H   == BSubC(x, y, mid + 1, hi, L.c)
       IN  [d |-> L.d \o H.d, c |-> H.c]

\* x - y for x >= y
BSub(x, y) == IF x = << >> THEN x ELSE BStrip(BSubC(x, y, 1, Len(x), 0).d)

\* -1, 0, 1 as x < y, x = y, x > y
BCmp(x, y) ==
  IF Len(x) < Len(y) THEN -1
  ELSE IF Len(x) > Len(y) THEN 1
  ELSE LET df == {i \in 1..Len(x) : x[i] # y[i]}
       IN  IF df = {} THEN 0
           ELSE IF x[MaxOf(df)] < y[MaxOf(df)] THEN -1 ELSE 1

\* digits lo..hi of x * k + carry and the carry out of them
RECURSIVE BMulSmallC(_, _, _, _, _)
BMulSmallC(x, k, lo, hi, carry) ==
  IF lo = hi
  THEN LET t == x[lo] * k + carry
       IN  [d |-> <<t % Base>>, c |-> t \div Base]
  ELSE LET mid == (lo + hi) \div 2
           L   == BMulSmallC(x, k, lo, mid, carry)
           H   == BMulSmallC(x, k, mid + 1, hi, L.c)
       IN  [d |-> L.d \o H.d, c |-> H.c]

\* x * k for 0 <= k < 2^18
BMulSmall(x, k) ==
  IF k = 0 \/ x = << >> THEN << >>
  ELSE LET t == BMulSmallC(x, k, 1, Len(x), 0)
       IN  t.d \o BN(t.c)

\* x * Base^n
BShlDigits(x, n) ==
  IF x = << >> THEN x ELSE [i \in 1..n |-> 0] \o x

\* x times the digits lo..hi of y, each at its place
RECURSIVE BMulFrom(_, _, _, _)
BMulFrom(x, y, lo, hi) ==
  IF lo = hi THEN BShlDigits(BMulSmall(x, y[lo]), lo - 1)
  ELSE LET mid == (lo + hi) \div 2
       IN  BAdd(BMulFrom(x, y, lo, mid), BMulFrom(x, y, mid + 1, hi))

BMul(x, y) == IF y = << >> THEN << >> ELSE BMulFrom(x, y, 1, Len(y))

\* x * 2^s
BShl(x, s) == BShlDigits(BMulSmall(x, Pow2(s % 12)), s \div 12)

\* x \div 2^s
BShr(x, s) ==
  LET q == s \div 12
      p == Pow2(s % 12)
  IN  IF q >= Len(x) THEN << >>
      ELSE BStrip([i \in 1..(Len(x) - q) |->
                     (x[i + q] \div p) + (((Dig(x, i + q + 1) * Base) \div p) % Base)])

\* number of bits of x
BLen(x) ==
  IF x = << >> THEN 0 ELSE 12 * (Len(x) - 1) + Log2(x[Len(x)]) + 1

-----------------------------------------------------------------------------
(* Single precision arithmetic on lane patterns (IEEE-754 binary32,        *)
(* round to nearest even, as the vector unit computes).  A finite lane is  *)
(* the dyadic number (-1)^s * m * 2^e.  In non-Java mode (nj, the NJ bit   *)
(* of the VSCR) the unit reads a denormal operand as zero and delivers     *)
(* zero for a denormal result.                                             *)

SignF(w) == w[0] \div 128

ExpF(w) == (w[0] % 128) * 2 + w[1] \div 128

FracF(w) == (w[1] % 128) * 65536 + w[2] * 256 + w[3]

PackF(s, e, f) ==
  W4(s * 128 + e \div 2, (e % 2) * 128 + f \div 65536, (f \div 256) % 256,
     f % 256)

IsNaN(w) == ExpF(w) = 255 /\ FracF(w) # 0

IsInf(w) == ExpF(w) = 255 /\ FracF(w) = 0

IsZeroF(w) == ExpF(w) = 0 /\ FracF(w) = 0

IsDenorm(w) == ExpF(w) = 0 /\ FracF(w) # 0

IsNormal(w) == ExpF(w) \in 1..254

\* the quiet NaN an invalid operation delivers
QNaN == PackF(0, 255, 4194304)

InfF(s) == PackF(s, 255, 0)

ZeroF(s) == PackF(s, 0, 0)

NegF(w) == W4((w[0] + 128) % 256, w[1], w[2], w[3])

\* the significand and the exponent of its unit of a finite lane
Sig(w) == IF ExpF(w) = 0 THEN FracF(w) ELSE FracF(w) + 8388608

Ex(w) == IF ExpF(w) = 0 THEN -149 ELSE ExpF(w) - 150

\* the value of a finite lane
Dy(w) == [s |-> SignF(w), m |-> BN(Sig(w)), e |-> Ex(w)]

DNeg(x) == [x EXCEPT !.s = 1 - x.s]

\* the exact product
DMul(x, y) == [s |-> (x.s + y.s) % 2, m |-> BMul(x.m, y.m), e |-> x.e + y.e]

\* the exact sum; a zero sum of opposite signs is +0
DAddAt(x, y, mx, my, e) ==
  IF x.s = y.s THEN [s |-> x.s, m |-> BAdd(mx, my), e |-> e]
  ELSE IF BCmp(mx, my) = 0 THEN [s |-> 0, m |-> << >>, e |-> e]
  ELSE IF BCmp(mx, my) > 0 THEN [s |-> x.s, m |-> BSub(mx, my), e |-> e]
  ELSE [s |-> y.s, m |-> BSub(my, mx), e |-> e]

DAddTo(x, y, e) == DAddAt(x, y, BShl(x.m, x.e - e), BShl(y.m, y.e - e), e)

DAdd(x, y) == DAddTo(x, y, IF x.e < y.e THEN x.e ELSE y.e)

\* x and y are the same number
DEq(x, y) == DAdd(x, DNeg(y)).m = << >>

\* the lane nearest to the number x, ties to the even significand
\* the exponent of the last place kept of x # 0: 24 bits, or the
\* denormal place 2^-149
LastPlace(x) ==
  IF x.e + BLen(x.m) - 24 < -149 THEN -149 ELSE x.e + BLen(x.m) - 24

\* the part of m kept above a shift by sh bits
Kept(m, sh) == IF sh <= 0 THEN BToInt(BShl(m, -sh)) ELSE BToInt(BShr(m, sh))

\* the part of m dropped, against half a unit in the last place: -1, 0, 1
Dropped(m, sh, M0) ==
  IF sh <= 0 THEN -1
  ELSE BCmp(BSub(m, BShl(BN(M0), sh)), BShl(<<1>>, sh - 1))

\* to nearest, a tie to the even significand
RoundUp(cmp, M0) ==
  IF cmp > 0 \/ (cmp = 0 /\ M0 % 2 = 1) THEN M0 + 1 ELSE M0

\* the lane of sign s and significand M < 2^24 at last place 2^q
PackAt(s, q, M, nj) ==
  IF M < 8388608
  THEN (IF nj THEN ZeroF(s) ELSE PackF(s, 0, M))
  ELSE IF q + 150 >= 255 THEN InfF(s)
  ELSE PackF(s, q + 150, M - 8388608)

PackRounded(s, q, M1, nj) ==
  IF M1 = 16777216 THEN PackAt(s, q + 1, 8388608, nj) ELSE PackAt(s, q, M1, nj)

DRoundKept(x, nj, q, M0) ==
  PackRounded(x.s, q, RoundUp(Dropped(x.m, q - x.e, M0), M0), nj)

DRoundAt(x, nj, q) == DRoundKept(x, nj, q, Kept(x.m, q - x.e))

DRound(x, nj) ==
  IF x.m = << >> THEN ZeroF(x.s) ELSE DRoundAt(x, nj, LastPlace(x))

\* an operand as the unit reads it
FlushIn(w, nj) == IF nj /\ IsDenorm(w) THEN ZeroF(SignF(w)) ELSE w

\* x * y + z with one rounding (vmaddfp, one lane)
MaddFlushed(x, y, z, ps, nj) ==
  IF IsNaN(x) \/ IsNaN(y) \/ IsNaN(z) THEN QNaN
  ELSE IF (IsInf(x) /\ IsZeroF(y)) \/ (IsZeroF(x) /\ IsInf(y)) THEN QNaN
  ELSE IF IsInf(x) \/ IsInf(y)
  THEN (IF IsInf(z) /\ SignF(z) # ps THEN QNaN ELSE InfF(ps))
  ELSE IF IsInf(z) THEN z
  ELSE DRound(DAdd(DMul(Dy(x), Dy(y)), Dy(z)), nj)

MaddLane(x0, y0, z0, nj) ==
  MaddFlushed(FlushIn(x0, nj), FlushIn(y0, nj), FlushIn(z0, nj),
              (SignF(x0) + SignF(y0)) % 2, nj)

\* -( x * y - z ) with one rounding (vnmsubfp, one lane)
NegUnlessNaN(t) == IF IsNaN(t) THEN t ELSE NegF(t)

NmsubLane(x, y, z, nj) == NegUnlessNaN(MaddLane(x, y, NegF(z), nj))

\* x + y (vaddfp, one lane)
AddFlushed(x, y, nj) ==
  IF IsNaN(x) \/ IsNaN(y) THEN QNaN
  ELSE IF IsInf(x)
  THEN (IF IsInf(y) /\ SignF(y) # SignF(x) THEN QNaN ELSE x)
  ELSE IF IsInf(y) THEN y
  ELSE DRound(DAdd(Dy(x), Dy(y)), nj)

AddLane(x0, y0, nj) == AddFlushed(FlushIn(x0, nj), FlushIn(y0, nj), nj)

\* floor(n * 64^k / m) and the remainder, by long division
RECURSIVE DivLong(_, _, _)
DivLong(n, m, k) ==
  IF k = 0 THEN [q |-> n \div m, r |-> n % m]
  ELSE LET p == DivLong(n, m, k - 1)
       IN  [q |-> p.q * 64 + (p.r * 64) \div m, r |-> (p.r * 64) % m]

\* a finite nonzero lane with its significand shifted up to 24 bits
Norm(w) ==
  LET sh == 24 - (Log2(Sig(w)) + 1)
  IN  [s |-> SignF(w), m |-> Sig(w) * Pow2(sh), e |-> Ex(w) - sh]

\* the lane nearest to 1 / w, for a finite nonzero w
RcpNearest(w, nj) ==
  LET n == Norm(w)
      dv == DivLong(1, n.m, 8)
  IN  DRound([s |-> n.s, m |-> BN(2 * dv.q + (IF dv.r = 0 THEN 0 ELSE 1)),
              e |-> -49 - n.e], nj)

\* One step of the square root of the quotient 1 / m, digit by digit in
\* base 4: the long division delivers the next quotient digit from its
\* remainder rd, and the root takes it in (rs is the root's remainder).
RsqStep(m, st) ==
  LET q  == (st.rd * 4) \div m
      u  == st.rs * 4 + q
      tr == 4 * st.root + 1
  IN  IF u >= tr
      THEN [rd |-> (st.rd * 4) % m, rs |-> u - tr, root |-> 2 * st.root + 1]
      ELSE [rd |-> (st.rd * 4) % m, rs |-> u, root |-> 2 * st.root]

\* k >= 1 steps; the count is halved so that the nesting grows with its
\* logarithm (the test holds always: it makes the first half a value
\* before the second half reads it)
RECURSIVE RsqSteps(_, _, _)
RsqSteps(m, st, k) ==
  IF k = 1 THEN RsqStep(m, st)
  ELSE LET h == RsqSteps(m, st, k \div 2)
       IN  IF h.root >= 0 THEN RsqSteps(m, h, k - (k \div 2)) ELSE st

\* the lane nearest to 1 / sqrt(w), for a finite w > 0: the root is
\* floor(2^39 / sqrt(m)) for the significand m taken with an even exponent
RsqrtNearest(w, nj) ==
  LET n   == Norm(w)
      odd == n.e % 2 = 1
      m   == IF odd THEN 2 * n.m ELSE n.m
      e   == IF odd THEN n.e - 1 ELSE n.e
      st  == RsqSteps(m, [rd |-> 1, rs |-> 0, root |-> 0], 39)
      sticky == IF st.rd = 0 /\ st.rs = 0 THEN 0 ELSE 1
  IN  DRound([s |-> 0, m |-> BAdd(BMulSmall(BN(st.root), 2), BN(sticky)),
              e |-> -40 - (e \div 2)], nj)

\* the estimate instructions deliver a value within one part in 4096 of
\* the result: here the nearest lane moved by j units in the last place,
\* |j| <= EstErr, where that stays a normal lane
EstErr == 2047

EstUlps == {-EstErr, 0, EstErr}

Moved(w, j) ==
  LET mag == SInt(W4(w[0] % 128, w[1], w[2], w[3])) + j
  IN  IF IsNormal(w) /\ mag >= 8388608 /\ mag < 2139095040
      THEN LET v == I32(mag) IN W4(v[0] + 128 * SignF(w), v[1], v[2], v[3])
      ELSE w

\* the hardware behind a call: the error of its estimate and the NJ mode
HW == [j : EstUlps, nj : BOOLEAN]

\* the modes, for calls that take no estimate
Modes == [j : {0}, nj : BOOLEAN]

\* vrefp, one lane
ReLane(w0, hw) ==
  LET w == FlushIn(w0, hw.nj)
  IN  IF IsNaN(w) THEN QNaN
      ELSE IF IsZeroF(w) THEN InfF(SignF(w))
      ELSE IF IsInf(w) THEN ZeroF(SignF(w))
      ELSE Moved(RcpNearest(w, hw.nj), hw.j)

\* vrsqrtefp, one lane
RsqrteLane(w0, hw) ==
  LET w == FlushIn(w0, hw.nj)
  IN  IF IsNaN(w) THEN QNaN
      ELSE IF IsZeroF(w) THEN InfF(SignF(w))
      ELSE IF SignF(w) = 1 THEN QNaN
      ELSE IF IsInf(w) THEN ZeroF(0)
      ELSE Moved(RsqrtNearest(w, hw.nj), hw.j)

\* x is a vector: four lanes
IsV4(x) == DOMAIN x = Lanes

\* The instructions read their operand registers, last operand first, and
\* then compute the four lanes.

\* the vector of the four lanes of f
Lanewise(f) == V4(f[0], f[1], f[2], f[3])

vec_madd(x, y, z, hw) ==
  IF IsV4(z) /\ IsV4(y) /\ IsV4(x)
  THEN Lanewise([i \in Lanes |-> MaddLane(x[i], y[i], z[i], hw.nj)])
  ELSE x

vec_nmsub(x, y, z, hw) ==
  IF IsV4(z) /\ IsV4(y) /\ IsV4(x)
  THEN Lanewise([i \in Lanes |-> NmsubLane(x[i], y[i], z[i], hw.nj)])
  ELSE x

\* vec_add and vec_sub on vector float
vec_add_fp(x, y, hw) ==
  IF IsV4(y) /\ IsV4(x)
  THEN Lanewise([i \in Lanes |-> AddLane(x[i], y[i], hw.nj)])
  ELSE x

vec_sub_fp(x, y, hw) ==
  IF IsV4(y) /\ IsV4(x)
  THEN Lanewise([i \in Lanes |-> AddLane(x[i], NegF(y[i]), hw.nj)])
  ELSE x

vec_re(x, hw) ==
  IF IsV4(x) THEN Lanewise([i \in Lanes |-> ReLane(x[i], hw)]) ELSE x

vec_rsqrte(x, hw) ==
  IF IsV4(x) THEN Lanewise([i \in Lanes |-> RsqrteLane(x[i], hw)]) ELSE x

-----------------------------------------------------------------------------
(* v4float arithmetic.  Every function takes the hardware hw behind the    *)
(* call: the error of the estimate instruction and the NJ mode.            *)

v_zero == [i \in Lanes |-> ZeroF(0)]

v_one == [i \in Lanes |-> F32(1)]

v_half == [i \in Lanes |-> PackF(0, 126, 0)]

\* the refinement statement of operator /, operator /= and rcp:
\* b_v = vec_madd( vec_nmsub( b_v, a_v, _one ), b_v, b_v )
refine_rcp(a_v, b_v, hw) ==
  vec_madd(vec_nmsub(b_v, a_v, v_one, hw), b_v, b_v, hw)

\* operator / with one refinement step
op_div_one(n, x, hw) ==
  vec_madd(n, refine_rcp(x, vec_re(x, hw), hw), v_zero, hw)

\* operator /( n, a )
op_div(n, x, hw) ==
  vec_madd(n, refine_rcp(x, refine_rcp(x, vec_re(x, hw), hw), hw), v_zero, hw)

\* the value operator /=( a ) leaves in the receiver v
op_div_assign(v, x, hw) ==
  vec_madd(v, refine_rcp(x, refine_rcp(x, vec_re(x, hw), hw), hw), v_zero, hw)

FBinaryOps == {"+", "-", "*", "/"}

\* the operators of the BINARY macro and operator / (v4float)
FBINARY(op, x, y, hw) ==
  CASE op = "+" -> vec_add_fp(x, y, hw)
    [] op = "-" -> vec_sub_fp(x, y, hw)
    [] op = "*" -> vec_madd(x, y, v_zero, hw)
    [] op = "/" -> op_div(x, y, hw)

FAssignOps == {"+=", "-=", "*=", "/="}

\* the value the operators of the ASSIGN macro and operator /= leave in the
\* receiver x (v4float)
FASSIGN(op, x, y, hw) ==
  CASE op = "+=" -> vec_add_fp(x, y, hw)
    [] op = "-=" -> vec_sub_fp(x, y, hw)
    [] op = "*=" -> vec_madd(x, y, v_zero, hw)
    [] op = "/=" -> op_div_assign(x, y, hw)

rsqrt_approx(x, hw) == vec_rsqrte(x, hw)

\* the refinement statement of rsqrt and sqrt:
\* b_v = vec_madd( vec_nmsub( vec_madd( b_v, b_v, _zero ), a_v, _one ),
\*                 vec_madd( b_v, _half, _zero ), b_v )
refine_rsqrt(a_v, b_v, hw) ==
  vec_madd(vec_nmsub(vec_madd(b_v, b_v, v_zero, hw), a_v, v_one, hw),
           vec_madd(b_v, v_half, v_zero, hw), b_v, hw)

\* rsqrt with one refinement step
rsqrt_once(x, hw) == refine_rsqrt(x, vec_rsqrte(x, hw), hw)

rsqrt(x, hw) == refine_rsqrt(x, refine_rsqrt(x, vec_rsqrte(x, hw), hw), hw)

sqrt(x, hw) ==
  vec_madd(x, refine_rsqrt(x, refine_rsqrt(x, vec_rsqrte(x, hw), hw), hw),
           v_zero, hw)

rcp_approx(x, hw) == vec_re(x, hw)

\* rcp without refinement
rcp_unrefined(x, hw) == vec_re(x, hw)

\* rcp with one refinement step
rcp_once(x, hw) == refine_rcp(x, vec_re(x, hw), hw)

rcp(x, hw) == refine_rcp(x, refine_rcp(x, vec_re(x, hw), hw), hw)

fma(x, y, z, hw) == vec_madd(x, y, z, hw)

\* fms without the subtraction from zero
fms_nmsub(x, y, z, hw) == vec_nmsub(x, y, z, hw)

fms(x, y, z, hw) == vec_sub_fp(v_zero, vec_nmsub(x, y, z, hw), hw)

fnms(x, y, z, hw) == vec_nmsub(x, y, z, hw)

-----------------------------------------------------------------------------
(* Calls of the arithmetic operators, one call per run, on two operand     *)
(* objects a and b of the same type.                                       *)

\* v4int( i0, i1, i2, i3 )
v4int4(i0, i1, i2, i3) == V4(I32(i0), I32(i1), I32(i2), I32(i3))

\* operands with small lanes: shift counts, divisors, factors
SmallTable == << 2, -7, 3, 13, -2, 24, 31, 65536, 8, -100000 >>

SmallVal(k) == SmallTable[(k % Len(SmallTable)) + 1]

SmallVec(k) == v4int4(SmallVal(k), SmallVal(k + 1), SmallVal(k + 2), SmallVal(k + 3))

\* operands with float lanes: 2, 3, 1/2, pi, 0.1f, the least denormal,
\* FLT_MAX, -3, 0, the float after 1, the least normal, 1.5 * 2^126,
\* 12345.678f, infinity, a NaN, -0
FltTable ==
  << F32(2), F32(3), PackF(0, 126, 0), PackF(0, 128, 4788187),
     PackF(0, 123, 5033165), PackF(0, 0, 1), PackF(0, 254, 8388607),
     PackF(1, 128, 4194304), PackF(0, 0, 0), PackF(0, 127, 1),
     PackF(0, 1, 0), PackF(0, 253, 4194304), PackF(0, 140, 4253367),
     PackF(0, 255, 0), PackF(0, 255, 1), PackF(1, 0, 0) >>

FltVal(k) == FltTable[(k % Len(FltTable)) + 1]

FltVec(k) == V4(FltVal(k), FltVal(k + 1), FltVal(k + 2), FltVal(k + 3))

NInt == NVals + NSmall

NArith == NInt + NFlt

ArithVec(k) ==
  IF k < NVals THEN Rot(k)
  ELSE IF k < NInt THEN SmallVec(k - NVals)
  ELSE FltVec(k - NInt)

\* a and b are two v4int or two v4float
InitArith ==
  /\ \E i, j \in 0..(NArith - 1) :
       /\ (i < NInt) = (j < NInt)
       /\ a = ArithVec(i)
       /\ b = ArithVec(j)
       /\ c = ArithVec((i + 2 * j + 1) % NArith)
  /\ d = Rot(0)
  /\ mem = Mem0
  /\ r = v_false
  /\ ret = 0
  /\ last = [op |-> "init"]
  /\ lastStore = NoStore
  /\ NoBuild
  /\ nops = 0

\* a, b and c are v4float
InitMath ==
  /\ \E i, j \in 0..(NFlt - 1) :
       /\ a = FltVec(i)
       /\ b = FltVec(j)
       /\ c = FltVec(i + 2 * j + 1)
  /\ d = Rot(0)
  /\ mem = Mem0
  /\ r = v_false
  /\ ret = 0
  /\ last = [op |-> "init"]
  /\ lastStore = NoStore
  /\ NoBuild
  /\ nops = 0

\* the record of a v4int call: what it was, its operands, whether it had
\* undefined behaviour and what the build made of it
IntRec(kind, op, res, o) ==
  [kind |-> kind, op |-> op, x |-> a, y |-> b, z |-> c, ub |-> res.ub,
   trap |-> res.trap, o |-> IF res.ub THEN o ELSE "none"]

\* r = a op b
Call_BINARY ==
  /\ nops = 0
  /\ \E op \in BinaryOps, o \in UBOutcomes :
       LET res == BINARY(op, a, b, o)
       IN  /\ r' = IF res.trap THEN r ELSE res.v
           /\ last' = IntRec("binary", op, res, o)
  /\ nops' = 1
  /\ UNCHANGED <<build, a, b, c, d, mem, ret, lastStore>>

\* a op= b
Call_ASSIGN ==
  /\ nops = 0
  /\ \E op \in AssignOps, o \in UBOutcomes :
       LET res == ASSIGN(op, a, b, o)
       IN  /\ a' = IF res.trap THEN a ELSE res.v
           /\ last' = IntRec("assign", op, res, o)
  /\ nops' = 1
  /\ UNCHANGED <<build, b, c, d, mem, r, ret, lastStore>>

\* r = op a
Call_PREFIX_UNARY ==
  /\ nops = 0
  /\ \E op \in PrefixOps :
       /\ r' = PREFIX_UNARY(op, a)
       /\ last' = IntRec("prefix", op, Defined(r'), "none")
  /\ nops' = 1
  /\ UNCHANGED <<build, a, b, c, d, mem, ret, lastStore>>

\* r = abs( a )
Call_abs ==
  /\ nops = 0
  /\ r' = abs(a)
  /\ last' = IntRec("abs", "abs", Defined(r'), "none")
  /\ nops' = 1
  /\ UNCHANGED <<build, a, b, c, d, mem, ret, lastStore>>

\* the record of a v4float call
FltRec(kind, op, hw) ==
  [kind |-> kind, op |-> op, x |-> a, y |-> b, z |-> c, hw |-> hw]

\* r = a op b (v4float)
Call_FBINARY ==
  /\ nops = 0
  /\ \E op \in FBinaryOps, hw \in HW :
       /\ op # "/" => hw.j = 0
       /\ r' = FBINARY(op, a, b, hw)
       /\ last' = FltRec("fbinary", op, hw)
  /\ nops' = 1
  /\ UNCHANGED <<build, a, b, c, d, mem, ret, lastStore>>

\* a op= b (v4float)
Call_FASSIGN ==
  /\ nops = 0
  /\ \E op \in FAssignOps, hw \in HW :
       /\ op # "/=" => hw.j = 0
       /\ a' = FASSIGN(op, a, b, hw)
       /\ last' = FltRec("fassign", op, hw)
  /\ nops' = 1
  /\ UNCHANGED <<build, b, c, d, mem, r, ret, lastStore>>

Call_rcp_approx ==
  /\ nops = 0
  /\ \E hw \in HW :
       /\ r' = rcp_approx(a, hw)
       /\ last' = FltRec("fn", "rcp_approx", hw)
  /\ nops' = 1
  /\ UNCHANGED <<build, a, b, c, d, mem, ret, lastStore>>

Call_rcp ==
  /\ nops = 0
  /\ \E hw \in HW :
       /\ r' = rcp(a, hw)
       /\ last' = FltRec("fn", "rcp", hw)
  /\ nops' = 1
  /\ UNCHANGED <<build, a, b, c, d, mem, ret, lastStore>>

Call_rsqrt_approx ==
  /\ nops = 0
  /\ \E hw \in HW :
       /\ r' = rsqrt_approx(a, hw)
       /\ last' = FltRec("fn", "rsqrt_approx", hw)
  /\ nops' = 1
  /\ UNCHANGED <<build, a, b, c, d, mem, ret, lastStore>>

Call_rsqrt ==
  /\ nops = 0
  /\ \E hw \in HW :
       /\ r' = rsqrt(a, hw)
       /\ last' = FltRec("fn", "rsqrt", hw)
  /\ nops' = 1
  /\ UNCHANGED <<build, a, b, c, d, mem, ret, lastStore>>

Call_sqrt ==
  /\ nops = 0
  /\ \E hw \in HW :
       /\ r' = sqrt(a, hw)
       /\ last' = FltRec("fn", "sqrt", hw)
  /\ nops' = 1
  /\ UNCHANGED <<build, a, b, c, d, mem, ret, lastStore>>

Call_fma ==
  /\ nops = 0
  /\ \E hw \in Modes :
       /\ r' = fma(a, b, c, hw)
       /\ last' = FltRec("fn", "fma", hw)
  /\ nops' = 1
  /\ UNCHANGED <<build, a, b, c, d, mem, ret, lastStore>>

Call_fms ==
  /\ nops = 0
  /\ \E hw \in Modes :
       /\ r' = fms(a, b, c, hw)
       /\ last' = FltRec("fn", "fms", hw)
  /\ nops' = 1
  /\ UNCHANGED <<build, a, b, c, d, mem, ret, lastStore>>

Call_fnms ==
  /\ nops = 0
  /\ \E hw \in Modes :
       /\ r' = fnms(a, b, c, hw)
       /\ last' = FltRec("fn", "fnms", hw)
  /\ nops' = 1
  /\ UNCHANGED <<build, a, b, c, d, mem, ret, lastStore>>

NextArith ==
  \/ Call_BINARY
  \/ Call_ASSIGN
  \/ Call_PREFIX_UNARY
  \/ Call_abs
  \/ Call_FBINARY
  \/ Call_FASSIGN

SpecArith == InitArith /\ [][NextArith]_vars

NextMath ==
  \/ Call_FBINARY
  \/ Call_FASSIGN
  \/ Call_rcp_approx
  \/ Call_rcp
  \/ Call_rsqrt_approx
  \/ Call_rsqrt
  \/ Call_sqrt
  \/ Call_fma
  \/ Call_fms
  \/ Call_fnms

SpecMath == InitMath /\ [][NextMath]_vars

-----------------------------------------------------------------------------
(* Properties of the v4int arithmetic *)

\* the last call was a v4int operator of one of the given spellings
IntCall(ops) ==
  /\ last.op # "init"
  /\ last.kind \in {"binary", "assign", "prefix", "abs"}
  /\ last.op \in ops

\* the vector the last v4int call produced: the receiver of a compound
\* assignment, the returned value otherwise
IntResult == IF last.kind = "assign" THEN a ELSE r

\* the int x shifted right by n with the sign propagated: floor(x / 2^n)
SignedShr(x, n) ==
  IF n = 31 THEN (IF x < 0 THEN -1 ELSE 0) ELSE x \div Pow2(n)

\* x * 2^n modulo 2^32
ModularShl(x, n) ==
  MulW(x, IF n = 31 THEN I32(IntMin) ELSE I32(Pow2(n)))

\* C11: on v4int, >> and >>= give in each lane whose count is in 0..31 the
\* signed (sign-propagating) right shift of a's lane by b's lane, and << and
\* <<= the left shift modulo 2^32.
C11_SignedShift ==
  IntCall({">>", ">>=", "<<", "<<="}) =>
    \A k \in Lanes :
      SInt(last.y[k]) \in 0..31 =>
        IF last.op \in {">>", ">>="}
        THEN SInt(IntResult[k]) = SignedShr(SInt(last.x[k]), SInt(last.y[k]))
        ELSE IntResult[k] = ModularShl(last.x[k], SInt(last.y[k]))

\* a lane of the divisor of the last call is zero
ZeroDivisor ==
  /\ last.op \in {"/", "%", "/=", "%="}
  /\ \E k \in Lanes : last.y[k] = W4(0, 0, 0, 0)

\* C12: every v4int operator is defined for all lane values, without trap
\* or undefined behaviour, except / % /= %= with a zero divisor lane.
C12_Total ==
  IntCall(BinaryOps \cup AssignOps \cup PrefixOps \cup {"abs"}) =>
    (~ZeroDivisor => ~last.ub /\ ~last.trap)

\* the 32-bit result of the scalar operation on two lanes: the product
\* modulo 2^32, the quotient rounded towards zero, the remainder
Scalar32(op, x, y) ==
  IF x = I32(IntMin) /\ y = I32(-1)
  THEN (IF op \in {"/", "/="} THEN x
        ELSE IF op \in {"%", "%="} THEN W4(0, 0, 0, 0)
        ELSE MulW(x, y))
  ELSE LaneDef(IF op \in {"*", "*="} THEN "*"
               ELSE IF op \in {"/", "/="} THEN "/" ELSE "%", x, y)

\* C14: the scalarized operators * / % (and *= /= %=) give in lane k exactly
\* the scalar 32-bit result on lane k of a and lane k of b, whatever the
\* other lanes hold, for all operands whose divisor lanes are nonzero.
C14_Scalarized ==
  IntCall({"*", "/", "%", "*=", "/=", "%="}) /\ ~ZeroDivisor =>
    /\ ~last.trap
    /\ \A k \in Lanes : IntResult[k] = Scalar32(last.op, last.x[k], last.y[k])

\* the binary operator of a compound assignment
BinOf(op) ==
  CASE op = "+="  -> "+"
    [] op = "-="  -> "-"
    [] op = "*="  -> "*"
    [] op = "/="  -> "/"
    [] op = "%="  -> "%"
    [] op = "^="  -> "^"
    [] op = "&="  -> "&"
    [] op = "|="  -> "|"
    [] op = "<<=" -> "<<"
    [] op = ">>=" -> ">>"

-----------------------------------------------------------------------------
(* Properties of the v4float arithmetic *)

\* the last call was the v4float call op of the given kind
FltCall(kind, op) == last.op = op /\ last.kind = kind

\* C15: operator /( n, a ) and the value n /= a leaves in n both equal
\* n * rcp( a ) lane for lane: the same estimate on the same hardware, the
\* same two refinement steps and one final multiply.
C15_DivIsMulRcp ==
  /\ FltCall("fbinary", "/") =>
       r = FBINARY("*", last.x, rcp(last.y, last.hw), last.hw)
  /\ FltCall("fassign", "/=") =>
       a = FBINARY("*", last.x, rcp(last.y, last.hw), last.hw)

\* 3.0f / 2.0f in lane 0 came out as 1.5f
C15_Witness ==
  /\ FltCall("fbinary", "/")
  /\ last.x[0] = F32(3)
  /\ last.y[0] = F32(2)
  /\ r[0] = PackF(0, 127, 4194304)

\* the numbers 1, 2, 1/2 and 3/2
DOne == [s |-> 0, m |-> <<1>>, e |-> 0]

DTwo == [s |-> 0, m |-> <<2>>, e |-> 0]

DHalf == [s |-> 0, m |-> <<1>>, e |-> -1]

DThreeHalves == [s |-> 0, m |-> <<3>>, e |-> -1]

DAbs(x) == [x EXCEPT !.s = 0]

\* vec_madd and vec_nmsub in exact arithmetic: x * y + z and -(x * y - z)
DMadd(x, y, z) == DAdd(DMul(x, y), z)

DNmsub(x, y, z) == DNeg(DAdd(DMul(x, y), DNeg(z)))

\* the refinement statement of rcp,
\*   b_v = vec_madd( vec_nmsub( b_v, a_v, _one ), b_v, b_v ),
\* as the unit computes it and in exact arithmetic (one lane)
RcpStep(av, bv, hw) == vec_madd(vec_nmsub(bv, av, v_one, hw), bv, bv, hw)

RcpStepExact(av, bv) == DMadd(DNmsub(bv, av, DOne), bv, bv)

\* the Newton-Raphson map x -> x * (2 - a * x)
NewtonRcp(av, xv) == DMul(xv, DAdd(DTwo, DNeg(DMul(av, xv))))

\* the relative error of x against 1 / a: (x - 1/a) / (1/a) = a * x - 1
RelErrRcp(av, xv) == DAdd(DMul(av, xv), DNeg(DOne))

IsFinite(w) == ExpF(w) # 255

\* C16: rcp(a) is rcp_approx(a) refined by exactly two iterations of the
\* refinement statement; in exact arithmetic each iteration maps x to
\* x * (2 - a * x), so that an estimate with relative error e has relative
\* error of magnitude e^2 after one iteration and e^4 after the two.
C16_RcpNewton ==
  FltCall("fn", "rcp") =>
    LET x0 == rcp_approx(last.x, last.hw)
    IN  /\ r = RcpStep(last.x, RcpStep(last.x, x0, last.hw), last.hw)
        /\ \A i \in Lanes :
             IsFinite(last.x[i]) /\ IsFinite(x0[i]) =>
               LET av == Dy(last.x[i])
                   e0 == RelErrRcp(av, Dy(x0[i]))
                   x1 == RcpStepExact(av, Dy(x0[i]))
                   x2 == RcpStepExact(av, x1)
                   e2 == DMul(e0, e0)
               IN  /\ DEq(x1, NewtonRcp(av, Dy(x0[i])))
                   /\ DEq(x2, NewtonRcp(av, x1))
                   /\ DEq(DAbs(RelErrRcp(av, x1)), e2)
                   /\ DEq(DAbs(RelErrRcp(av, x2)), DMul(e2, e2))

\* rcp of 3.0f from an estimate that is off by EstErr units in the last
\* place: the result differs from the estimate and is the float nearest 1/3
C16_Witness ==
  /\ FltCall("fn", "rcp")
  /\ last.x[0] = F32(3)
  /\ last.hw.j = EstErr
  /\ rcp_approx(last.x, last.hw)[0] = PackF(0, 125, 2796203 + EstErr)
  /\ r[0] = PackF(0, 125, 2796203)

\* the refinement statement of rsqrt and sqrt, on the hardware
RsqrtStep(av, bv, hw) ==
  vec_madd(vec_nmsub(vec_madd(bv, bv, v_zero, hw), av, v_one, hw),
           vec_madd(bv, v_half, v_zero, hw), bv, hw)

DZero == [s |-> 0, m |-> << >>, e |-> 0]

\* the same statement in exact arithmetic
RsqrtStepExact(av, bv) ==
  DMadd(DNmsub(DMadd(bv, bv, DZero), av, DOne), DMadd(bv, DHalf, DZero), bv)

\* one Newton-Raphson iteration for 1/sqrt(a): y -> y (1.5 - 0.5 a y^2)
NewtonRsqrt(av, yv) ==
  DMul(yv, DAdd(DThreeHalves, DNeg(DMul(DMul(DHalf, av), DMul(yv, yv)))))

\* C17: rsqrt(a) is rsqrt_approx(a) refined by exactly two iterations, each of
\* which is y -> y (1.5 - 0.5 a y^2) in exact arithmetic, and sqrt(a) is
\* a * rsqrt(a) lane for lane.
C17_RsqrtNewton ==
  /\ FltCall("fn", "rsqrt") =>
       LET y0 == rsqrt_approx(last.x, last.hw)
       IN  /\ r = RsqrtStep(last.x, RsqrtStep(last.x, y0, last.hw), last.hw)
           /\ \A i \in Lanes :
                IsFinite(last.x[i]) /\ IsFinite(y0[i]) =>
                  LET av == Dy(last.x[i])
                      y1 == RsqrtStepExact(av, Dy(y0[i]))
                  IN  /\ DEq(y1, NewtonRsqrt(av, Dy(y0[i])))
                      /\ DEq(RsqrtStepExact(av, y1), NewtonRsqrt(av, y1))
  /\ FltCall("fn", "sqrt") =>
       /\ r = FBINARY("*", last.x, rsqrt(last.x, last.hw), last.hw)
       /\ \A i \in Lanes : r[i] = FBINARY("*", V4(last.x[i], last.x[i], last.x[i], last.x[i]),
                                          rsqrt(V4(last.x[i], last.x[i], last.x[i], last.x[i]), last.hw),
                                          last.hw)[0]

\* sqrt(2.0) from an estimate 2047 ulps off: 1/sqrt(2) refined to 0x3F3504F3,
\* times 2.0 is 0x3FB504F3
C17_Witness ==
  /\ FltCall("fn", "sqrt")
  /\ last.x[0] = F32(2)
  /\ last.hw.j = EstErr
  /\ rsqrt_approx(last.x, last.hw)[0] = W4(63, 53, 12, 242)
  /\ rsqrt(last.x, last.hw)[0] = W4(63, 53, 4, 243)
  /\ r[0] = W4(63, 181, 4, 243)

\* x < y
DLess(x, y) ==
  LET t == DAdd(x, DNeg(y))
  IN  t.m # << >> /\ t.s = 1

\* the natural number n < 2^31 as an exact number
DNat(n) == [s |-> 0, m |-> BN(n), e |-> 0]

\* a finite lane above zero
IsPositive(w) == IsFinite(w) /\ ~IsZeroF(w) /\ SignF(w) = 0

\* | x a - 1 | < 10^-6 : x is within 10^-6 of 1/a, relative to 1/a
RcpWithin(w, x) ==
  /\ IsFinite(x)
  /\ DLess(DMul(DAbs(RelErrRcp(Dy(w), Dy(x))), DNat(1000000)), DOne)

\* | y sqrt(a) - 1 | < 10^-6 for y > 0, squared:
\* (10^6 - 1)^2 < y^2 a 10^12 < (10^6 + 1)^2
RsqrtWithin(w, y) ==
  /\ IsPositive(y)
  /\ LET p == DMul(DMul(DMul(Dy(y), Dy(y)), Dy(w)), DMul(DNat(1000000), DNat(1000000)))
     IN  /\ DLess(DMul(DNat(999999), DNat(999999)), p)
         /\ DLess(p, DMul(DNat(1000001), DNat(1000001)))

\* C18: for every finite lane a > 0 the relative error of rcp(a) against
\* 1/a and of rsqrt(a) against 1/sqrt(a) is below 10^-6.
C18_RelErr ==
  /\ FltCall("fn", "rcp") =>
       \A i \in Lanes : IsPositive(last.x[i]) => RcpWithin(last.x[i], r[i])
  /\ FltCall("fn", "rsqrt") =>
       \A i \in Lanes : IsPositive(last.x[i]) => RsqrtWithin(last.x[i], r[i])

\* | x - 1/2 | < 10^-7
NearHalf(x) ==
  /\ IsFinite(x)
  /\ DLess(DMul(DAbs(DAdd(Dy(x), DNeg(DHalf))), DNat(10000000)), DOne)

\* C19: for a lane a = 2.0 the hardware estimate of 1/a followed by the two
\* refinement steps of rcp is within 10^-7 of 0.5.
C19_RcpOfTwo ==
  FltCall("fn", "rcp") =>
    \A i \in Lanes :
      last.x[i] = F32(2) =>
        /\ r[i] = RcpStep(last.x, RcpStep(last.x, rcp_approx(last.x, last.hw), last.hw), last.hw)[i]
        /\ NearHalf(r[i])

\* an estimate 2047 ulps above 0.5 (0x3F0007FF) is refined to 0.5 itself
C19_Witness ==
  /\ FltCall("fn", "rcp")
  /\ last.x[0] = F32(2)
  /\ last.hw.j = EstErr
  /\ rcp_approx(last.x, last.hw)[0] = PackF(0, 126, EstErr)
  /\ ~NearHalf(rcp_approx(last.x, last.hw)[0])
  /\ r[0] = PackF(0, 126, 0)

\* two lanes hold the same number: both not a number, or both zero (of
\* either sign), or the same pattern
SameValue(u, v) ==
  \/ IsNaN(u) /\ IsNaN(v)
  \/ IsZeroF(u) /\ IsZeroF(v)
  \/ u = v

\* x * y + z of one lane: the exact sum rounded once
Fused(x, y, z, nj) == MaddLane(x, y, z, nj)

\* C20: in every lane fma(a,b,c) is a*b + c, fms(a,b,c) is a*b - c and
\* fnms(a,b,c) is c - a*b, each rounded once, and fms(a,b,c) is the negation
\* of fnms(a,b,c).
C20_Fused ==
  /\ FltCall("fn", "fma") =>
       \A i \in Lanes :
         SameValue(r[i], Fused(last.x[i], last.y[i], last.z[i], last.hw.nj))
  /\ FltCall("fn", "fms") =>
       \A i \in Lanes :
         /\ SameValue(r[i], Fused(last.x[i], last.y[i], NegF(last.z[i]), last.hw.nj))
         /\ SameValue(r[i], NegF(fnms(last.x, last.y, last.z, last.hw)[i]))
  /\ FltCall("fn", "fnms") =>
       \A i \in Lanes :
         /\ SameValue(r[i], Fused(NegF(last.x[i]), last.y[i], last.z[i], last.hw.nj))
         /\ SameValue(NegF(r[i]), fms(last.x, last.y, last.z, last.hw)[i])

\* fms(2, 2, 3) = 1 where fnms(2, 2, 3) = -1
C20_Witness ==
  /\ FltCall("fn", "fms")
  /\ last.x[0] = F32(2) /\ last.y[0] = F32(2) /\ last.z[0] = F32(3)
  /\ r[0] = F32(1)
  /\ fnms(last.x, last.y, last.z, last.hw)[0] = NegF(F32(1))

-----------------------------------------------------------------------------
(* Conversions between v4int and v4float                                   *)

\* _v4_float v = a.v: the sixteen bytes of the member are copied
CopyV(x) == [i \in Lanes |-> W4(x[i][0], x[i][1], x[i][2], x[i][3])]

\* the float nearest the int a lane holds (vec_ctf), exact for 0 <= n < 2^24
CtfLane(w) ==
  IF SInt(w) >= 0 /\ SInt(w) < 16777216 THEN F32(SInt(w)) ELSE w

\* a constructor that converts the numbers the lanes hold
v4float_ctf(x) == [i \in Lanes |-> CtfLane(x[i])]

\* v4int( const v4 &a ) { v = a.v; }
v4int_v4(x) == CopyV(x)

\* v4float( const v4 &a ) { v = a.v; }
v4float_v4(x) == CopyV(x)

\* the record of a call on the object a: what it was and its operands
ObjRec(kind, op, hw) ==
  [kind |-> kind, op |-> op, x |-> a, y |-> b, z |-> c, hw |-> hw]

NoHW == [j |-> 0, nj |-> FALSE]

\* r = v4int( a )
Call_v4int_v4 ==
  /\ nops = 0
  /\ r' = v4int_v4(a)
  /\ last' = ObjRec("ctor", "v4int", NoHW)
  /\ nops' = 1
  /\ UNCHANGED <<build, a, b, c, d, mem, ret, lastStore>>

\* r = v4float( a )
Call_v4float_v4 ==
  /\ nops = 0
  /\ r' = v4float_v4(a)
  /\ last' = ObjRec("ctor", "v4float", NoHW)
  /\ nops' = 1
  /\ UNCHANGED <<build, a, b, c, d, mem, ret, lastStore>>

-----------------------------------------------------------------------------
(* Prefix and postfix increment and decrement.  Each returns the new value *)
(* of its operand as a and the value it returns as b.                      *)

\* v4int operator ++( v4int &a )
v4int_preinc(x) ==
  LET a_v == vec_add(x, v_ione) IN [a |-> a_v, b |-> a_v]

\* v4int operator --( v4int &a )
v4int_predec(x) ==
  LET a_v == vec_sub(x, v_ione) IN [a |-> a_v, b |-> a_v]

\* a postfix ++ that returns the value it has stored
v4int_postinc_new(x) ==
  LET a_v == x IN [a |-> vec_add(a_v, v_ione), b |-> vec_add(a_v, v_ione)]

\* v4int operator ++( v4int &a, int )
v4int_postinc(x) ==
  LET a_v == x IN [a |-> vec_add(a_v, v_ione), b |-> a_v]

\* v4int operator --( v4int &a, int )
v4int_postdec(x) ==
  LET a_v == x IN [a |-> vec_sub(a_v, v_ione), b |-> a_v]

\* v4float operator ++( v4float &a )
v4float_preinc(x, hw) ==
  LET a_v == vec_add_fp(x, v_one, hw) IN [a |-> a_v, b |-> a_v]

\* v4float operator --( v4float &a )
v4float_predec(x, hw) ==
  LET a_v == vec_sub_fp(x, v_one, hw) IN [a |-> a_v, b |-> a_v]

\* v4float operator ++( v4float &a, int )
v4float_postinc(x, hw) ==
  LET a_v == x IN [a |-> vec_add_fp(a_v, v_one, hw), b |-> a_v]

\* v4float operator --( v4float &a, int )
v4float_postdec(x, hw) ==
  LET a_v == x IN [a |-> vec_sub_fp(a_v, v_one, hw), b |-> a_v]

\* the call leaves res.a in the object a and returns res.b
IncDec(ty, op, res, hw) ==
  /\ nops = 0
  /\ a' = res.a
  /\ r' = res.b
  /\ last' = ObjRec(ty, op, hw)
  /\ nops' = 1
  /\ UNCHANGED <<build, b, c, d, mem, ret, lastStore>>

Call_v4int_preinc == IncDec("v4int", "++a", v4int_preinc(a), NoHW)

Call_v4int_predec == IncDec("v4int", "--a", v4int_predec(a), NoHW)

Call_v4int_postinc == IncDec("v4int", "a++", v4int_postinc(a), NoHW)

Call_v4int_postdec == IncDec("v4int", "a--", v4int_postdec(a), NoHW)

Call_v4float_preinc ==
  \E hw \in Modes : IncDec("v4float", "++a", v4float_preinc(a, hw), hw)

Call_v4float_predec ==
  \E hw \in Modes : IncDec("v4float", "--a", v4float_predec(a, hw), hw)

Call_v4float_postinc ==
  \E hw \in Modes : IncDec("v4float", "a++", v4float_postinc(a, hw), hw)

Call_v4float_postdec ==
  \E hw \in Modes : IncDec("v4float", "a--", v4float_postdec(a, hw), hw)

-----------------------------------------------------------------------------
(* swap and the 16-byte block functions.  swap takes the indices of its    *)
(* two arguments among the objects o, so that both may be the same object. *)

\* t = a.v; a.v = b.v; b.v = t
swap(i, j, o) ==
  LET t  == o[i]
      o1 == [o EXCEPT ![i] = o[j]]
  IN  [o1 EXCEPT ![j] = t]

\* load_4x1( p, a ): the vector a is assigned
load_4x1(p, m) == vec_ld(0, p, m)

\* store_4x1( a, p ): the memory after the call
store_4x1(x, p, m) == vec_st(x, 0, p, m)

copy_4x1(dst, src, m) == vec_st(vec_ld(0, src, m), 0, dst, m)

\* a swap_4x1 that reads the first block after it has overwritten it
swap_4x1_late(p, q, m) ==
  LET vb == vec_ld(0, q, m)
      m1 == vec_st(vb, 0, p, m)
  IN  vec_st(vec_ld(0, p, m1), 0, q, m1)

swap_4x1(p, q, m) ==
  LET va == vec_ld(0, p, m)
      vb == vec_ld(0, q, m)
  IN  vec_st(va, 0, q, vec_st(vb, 0, p, m))

\* the addresses of the 16-byte blocks of the memory
Blocks == {16 * k : k \in 0..(MemBlocks - 1)}

\* the record of a call on objects or blocks: the indices or addresses it
\* was given and the objects and the memory before it
BlockRec(op, p, q) ==
  [kind |-> "block", op |-> op, p |-> p, q |-> q, pre |-> Objs, premem |-> mem]

\* swap( i-th object, j-th object )
Call_swap ==
  /\ nops = 0
  /\ \E i, j \in Lanes :
       /\ LET o == swap(i, j, Objs)
          IN  /\ a' = o[0]
              /\ b' = o[1]
              /\ c' = o[2]
              /\ d' = o[3]
       /\ last' = BlockRec("swap", i, j)
  /\ nops' = 1
  /\ UNCHANGED <<build, mem, r, ret, lastStore>>

\* load_4x1( p, a )
Call_load_4x1 ==
  /\ nops = 0
  /\ \E p \in Blocks :
       /\ a' = load_4x1(p, mem)
       /\ last' = BlockRec("load_4x1", p, p)
  /\ nops' = 1
  /\ UNCHANGED <<build, b, c, d, mem, r, ret, lastStore>>

\* store_4x1( a, p )
Call_store_4x1 ==
  /\ nops = 0
  /\ \E p \in Blocks :
       /\ mem' = store_4x1(a, p, mem)
       /\ last' = BlockRec("store_4x1", p, p)
  /\ nops' = 1
  /\ UNCHANGED <<build, a, b, c, d, r, ret, lastStore>>

\* copy_4x1( p, q )
Call_copy_4x1 ==
  /\ nops = 0
  /\ \E p, q \in Blocks :
       /\ mem' = copy_4x1(p, q, mem)
       /\ last' = BlockRec("copy_4x1", p, q)
  /\ nops' = 1
  /\ UNCHANGED <<build, a, b, c, d, r, ret, lastStore>>

\* swap_4x1( p, q )
Call_swap_4x1 ==
  /\ nops = 0
  /\ \E p, q \in Blocks :
       /\ mem' = swap_4x1(p, q, mem)
       /\ last' = BlockRec("swap_4x1", p, q)
  /\ nops' = 1
  /\ UNCHANGED <<build, a, b, c, d, r, ret, lastStore>>

-----------------------------------------------------------------------------
(* fabs and copysign                                                       *)

\* _sign: the lanes 1<<31
v_sign == [i \in Lanes |-> ShlN(I32(1), 31)]

fabs(x) == vec_andc(x, v_sign)

\* copysign with the roles of its arguments exchanged
copysign_swapped(x, y) == vec_or(vec_andc(y, v_sign), vec_and(x, v_sign))

copysign(x, y) == vec_or(vec_andc(x, v_sign), vec_and(y, v_sign))

\* r = fabs( a )
Call_fabs ==
  /\ nops = 0
  /\ r' = fabs(a)
  /\ last' = ObjRec("fn", "fabs", NoHW)
  /\ nops' = 1
  /\ UNCHANGED <<build, a, b, c, d, mem, ret, lastStore>>

\* r = copysign( a, b )
Call_copysign ==
  /\ nops = 0
  /\ r' = copysign(a, b)
  /\ last' = ObjRec("fn", "copysign", NoHW)
  /\ nops' = 1
  /\ UNCHANGED <<build, a, b, c, d, mem, ret, lastStore>>

-----------------------------------------------------------------------------
(* The cluster build script: the choice of the vector backends.  lineno is *)
(* the line of the script that runs next; the lines that neither read nor  *)
(* write a SET_V* variable or a USE_V* cache entry are passed over.        *)

\* the shell variables of lines 124-132, in their order
SetVars ==
  << "SET_V4_PORTABLE", "SET_V4_SSE", "SET_V4_AVX", "SET_V4_AVX2",
     "SET_V8_PORTABLE", "SET_V8_AVX", "SET_V8_AVX2",
     "SET_V16_PORTABLE", "SET_V16_AVX512" >>

\* the cmake variables of lines 830-838, in their order
UseVars ==
  << "USE_V4_PORTABLE", "USE_V4_SSE", "USE_V4_AVX", "USE_V4_AVX2",
     "USE_V8_PORTABLE", "USE_V8_AVX", "USE_V8_AVX2",
     "USE_V16_PORTABLE", "USE_V16_AVX512" >>

\* processor types the loaded modules may name, and none
VCPUs == {"haswell", "knl", "broadwell", "", "skylake", "KNL"}

\* the library is not exercised while the script runs
NoCalls ==
  /\ a = v_false /\ b = v_false /\ c = v_false /\ d = v_false
  /\ mem = Mem0
  /\ r = v_false
  /\ ret = 0
  /\ last = [op |-> "init"]
  /\ lastStore = NoStore
  /\ nops = 0

library == <<a, b, c, d, mem, r, ret, last, lastStore, nops>>

\* the shell at line 124: VCPU as module-fns.sh left it, $1, and the SET_V*
\* variables unset or inherited from the caller's environment
InitBuild ==
  /\ NoCalls
  /\ lineno = 124
  /\ \E v \in VCPUs, arg \in {"", "initcache"}, inh \in {"", "ON"} :
       env = [n \in {"VCPU", "1"} \cup {SetVars[k] : k \in 1..9} |->
                IF n = "VCPU" THEN v ELSE IF n = "1" THEN arg ELSE inh]
  /\ cache = << >>
  /\ path = << >>

\* lines 124-132, one assignment each: SET_V..="OFF"
Assign_OFF ==
  /\ lineno \in 124..132
  /\ env' = [env EXCEPT ![SetVars[lineno - 123]] = "OFF"]
  /\ lineno' = IF lineno = 132 THEN 134 ELSE lineno + 1
  /\ UNCHANGED <<library, cache, path>>

\* a haswell branch that also turns the AVX backend of V4 on
select_avx(e) ==
  IF e.VCPU = "haswell"
  THEN [e EXCEPT !.SET_V4_AVX = "ON", !.SET_V4_AVX2 = "ON", !.SET_V8_AVX2 = "ON"]
  ELSE IF e.VCPU = "knl"
  THEN [e EXCEPT !.SET_V4_AVX2 = "ON", !.SET_V16_AVX512 = "ON"]
  ELSE IF e.VCPU = "broadwell"
  THEN [e EXCEPT !.SET_V4_AVX2 = "ON", !.SET_V8_AVX2 = "ON"]
  ELSE e

\* lines 134-145: if [ x$VCPU = xhaswell ] ... elif ... else echo WARNING
select(e) ==
  IF e.VCPU = "haswell"
  THEN [e EXCEPT !.SET_V4_AVX2 = "ON", !.SET_V8_AVX2 = "ON"]
  ELSE IF e.VCPU = "knl"
  THEN [e EXCEPT !.SET_V4_AVX2 = "ON", !.SET_V16_AVX512 = "ON"]
  ELSE IF e.VCPU = "broadwell"
  THEN [e EXCEPT !.SET_V4_AVX2 = "ON", !.SET_V8_AVX2 = "ON"]
  ELSE e

Select ==
  /\ lineno = 134
  /\ env' = select(env)
  /\ lineno' = 822
  /\ UNCHANGED <<library, cache, path>>

\* create_cmake_cache starts a new, empty cache file
create_cmake_cache == << >>

Create_cache ==
  /\ lineno = 822
  /\ cache' = create_cmake_cache
  /\ lineno' = 830
  /\ UNCHANGED <<library, env, path>>

\* set_cache_bool NAME VALUE enters NAME with VALUE in the cache
set_cache_bool(name, value, cf) ==
  [n \in DOMAIN cf \cup {name} |-> IF n = name THEN value ELSE cf[n]]

\* lines 830-838, one call each: set_cache_bool USE_V.. $SET_V..
Set_cache ==
  /\ lineno \in 830..838
  /\ cache' = set_cache_bool(UseVars[lineno - 829], env[SetVars[lineno - 829]], cache)
  /\ lineno' = IF lineno = 838 THEN 849 ELSE lineno + 1
  /\ UNCHANGED <<library, env, path>>

\* lines 849-853: if [ x$1 = xinitcache ]; then ... exit 0
Initcache ==
  /\ lineno = 849
  /\ lineno' = IF env["1"] = "initcache" THEN 852 ELSE 868
  /\ UNCHANGED <<library, env, cache, path>>

\* line 868: cmake -LAH -C ${init_cache} ${src_dir}
Cmake ==
  /\ lineno = 868
  /\ lineno' = 873
  /\ UNCHANGED <<library, env, cache, path>>

NextBuild ==
  \/ Assign_OFF
  \/ Select
  \/ Create_cache
  \/ Set_cache
  \/ Initcache
  \/ Cmake

SpecBuild == InitBuild /\ [][NextBuild]_vars

-----------------------------------------------------------------------------
(* The choice of the implementation of a kernel operation, as lines        *)
(* 100-118 of the cluster script describe it                                *)

Widths == {4, 8, 16}

\* the lane widths that have a backend switched ON
Enabled(cf) ==
  {w \in Widths :
     \E k \in 1..9 :
       /\ cf[UseVars[k]] = "ON"
       /\ w = (IF k <= 4 THEN 4 ELSE IF k <= 7 THEN 8 ELSE 16)}

\* one choice for the whole build: the widest enabled width, and the scalar
\* version of every operation that has no implementation at that width
Dispatch_global(impl, on) ==
  IF 16 \in on THEN (IF 16 \in impl THEN 16 ELSE 0)
  ELSE IF 8 \in on THEN (IF 8 \in impl THEN 8 ELSE 0)
  ELSE IF 4 \in on THEN (IF 4 \in impl THEN 4 ELSE 0)
  ELSE 0

\* the implementation used for an operation that has implementations at the
\* widths impl when the widths on are enabled; 0 is the scalar version
Dispatch(impl, on) ==
  IF 16 \in on /\ 16 \in impl THEN 16
  ELSE IF 8 \in on /\ 8 \in impl THEN 8
  ELSE IF 4 \in on /\ 4 \in impl THEN 4
  ELSE 0

NotCompiled == [impl |-> {}, use |-> -1]

\* any configuration of the nine switches, as the cmake command line allows
InitDispatch ==
  /\ NoCalls
  /\ lineno = 873
  /\ env = << >>
  /\ cache \in [{UseVars[k] : k \in 1..9} -> {"ON", "OFF"}]
  /\ path = NotCompiled

\* a kernel operation with implementations at the widths impl is compiled
Compile ==
  /\ path = NotCompiled
  /\ \E impl \in SUBSET Widths :
       path' = [impl |-> impl, use |-> Dispatch(impl, Enabled(cache))]
  /\ UNCHANGED <<library, lineno, env, cache>>

NextDispatch == Compile

SpecDispatch == InitDispatch /\ [][NextDispatch]_vars

NextObj ==
  \/ Call_v4int_v4
  \/ Call_v4float_v4
  \/ Call_v4int_preinc
  \/ Call_v4int_predec
  \/ Call_v4int_postinc
  \/ Call_v4int_postdec
  \/ Call_v4float_preinc
  \/ Call_v4float_predec
  \/ Call_v4float_postinc
  \/ Call_v4float_postdec
  \/ Call_swap
  \/ Call_load_4x1
  \/ Call_store_4x1
  \/ Call_copy_4x1
  \/ Call_swap_4x1
  \/ Call_fabs
  \/ Call_copysign

SpecObj == InitArith /\ [][NextObj]_vars

-----------------------------------------------------------------------------
(* Properties of the conversions, the increments and the block functions   *)

ObjCall(kind, op) == last.op = op /\ last.kind = kind

\* C21: v4int( v4 ) and v4float( v4 ) reinterpret: the 32-bit pattern of
\* every lane is preserved, no number is converted (the int 1 stays
\* 0x00000001 and does not become 1.0f), and the round trips int -> float ->
\* int and float -> int -> float return the original patterns.
C21_Reinterpret ==
  /\ ObjCall("ctor", "v4float") =>
       /\ \A i \in Lanes : r[i] = last.x[i]
       /\ \A i \in Lanes : SInt(last.x[i]) = 1 => r[i] = W4(0, 0, 0, 1)
       /\ v4int_v4(r) = last.x
       /\ v4float_v4(v4int_v4(r)) = r
  /\ ObjCall("ctor", "v4int") =>
       /\ \A i \in Lanes : r[i] = last.x[i]
       /\ \A i \in Lanes : last.x[i] = F32(1) => SInt(r[i]) = 1065353216
       /\ v4float_v4(r) = last.x
       /\ v4int_v4(v4float_v4(r)) = r

\* a v4int with a lane 1 has become a v4float whose lane is the least
\* denormal, not 1.0f
C21_Witness ==
  /\ ObjCall("ctor", "v4float")
  /\ \E i \in Lanes :
       /\ SInt(last.x[i]) = 1
       /\ r[i] = PackF(0, 0, 1)
       /\ r[i] # F32(1)

\* record pointers that are 8-byte aligned, as the 4x2_tr variants declare
\* them, and disjoint
HalfAligned(p) == \A n \in 1..4 : p[n] % 8 = 0

\* the words of the fields 0..K-1 of the four records
FieldWords(K, p) == {p[n] \div 4 + k : n \in 1..4, k \in 0..(K - 1)}

\* C22: for four 8-byte aligned record pointers, 16-byte aligned or not,
\* load_4x2_tr returns exactly the fields 0 and 1 of each record and
\* store_4x2_tr writes exactly the fields 0 and 1 of each record.
C22_HalfAligned ==
  /\ (last.op = "load_tr" /\ last.K = 2 /\ HalfAligned(last.p)) =>
       /\ \A n \in Lanes :
            /\ a[n] = last.premem[last.p[n + 1] \div 4]
            /\ b[n] = last.premem[last.p[n + 1] \div 4 + 1]
       /\ <<c, d>> = <<last.pre[3], last.pre[4]>>
       /\ mem = last.premem
  /\ (last.op = "store_tr" /\ last.K = 2 /\ ValidPtrs(2, last.p)) =>
       /\ \A n \in Lanes :
            /\ mem[last.p[n + 1] \div 4] = last.pre[1][n]
            /\ mem[last.p[n + 1] \div 4 + 1] = last.pre[2][n]
       /\ \A w \in DOMAIN mem \ FieldWords(2, last.p) : mem[w] = last.premem[w]
       /\ <<a, b, c, d>> = last.pre

\* two vectors were stored at records in the upper halves of 16-byte blocks
\* and loaded back from there: the fields arrived, the lower halves of the
\* blocks kept their words
C22_Witness ==
  /\ last.op = "load_tr"
  /\ last.K = 2
  /\ lastStore.K = 2
  /\ lastStore.p = last.p
  /\ \A n \in 1..4 : last.p[n] % 16 = 8
  /\ <<a, b>> = lastStore.v
  /\ a # last.pre[1]
  /\ \A n \in Lanes :
       /\ mem[last.p[n + 1] \div 4] = a[n]
       /\ mem[last.p[n + 1] \div 4] # Mem0[last.p[n + 1] \div 4]
       /\ mem[last.p[n + 1] \div 4 - 2] = Mem0[last.p[n + 1] \div 4 - 2]

\* C23: store_4xK_tr (K = 1..4) writes exactly the first K fields of the four
\* records, field k of record n receiving lane n of the k-th vector, and
\* leaves every other word of memory, the fields K..3 included, and the
\* vectors unchanged; load_4xK_tr assigns its K output vectors only and
\* leaves memory unchanged.
C23_Frame ==
  /\ (last.op = "store_tr" /\ ValidPtrs(last.K, last.p)) =>
       /\ \A n \in Lanes : \A k \in 0..(last.K - 1) :
            mem[last.p[n + 1] \div 4 + k] = last.pre[k + 1][n]
       /\ \A w \in DOMAIN mem \ FieldWords(last.K, last.p) :
            mem[w] = last.premem[w]
       /\ <<a, b, c, d>> = last.pre
  /\ last.op = "load_tr" =>
       /\ mem = last.premem
       /\ \A k \in (last.K + 1)..4 : <<a, b, c, d>>[k] = last.pre[k]
       /\ <<r, ret>> = <<v_false, 0>>

\* three vectors were stored at 16-byte records: the fields 0..2 of every
\* record changed and its field 3 kept its word
C23_Witness ==
  /\ last.op = "store_tr"
  /\ last.K = 3
  /\ ValidPtrs(3, last.p)
  /\ \A n \in Lanes :
       /\ \A k \in 0..2 :
            /\ mem[last.p[n + 1] \div 4 + k] = last.pre[k + 1][n]
            /\ mem[last.p[n + 1] \div 4 + k] # last.premem[last.p[n + 1] \div 4 + k]
       /\ mem[last.p[n + 1] \div 4 + 3] = last.premem[last.p[n + 1] \div 4 + 3]
       /\ mem[last.p[n + 1] \div 4 + 3] # c[n]

\* the switches of one lane width that are ON in the cache
OnOf(names) == {n \in names \cap DOMAIN cache : cache[n] = "ON"}

V4Switches == {UseVars[k] : k \in 1..4}

V8Switches == {UseVars[k] : k \in 5..7}

V16Switches == {UseVars[k] : k \in 8..9}

\* the script is past line 838: the configuration is written
Configured == lineno > 838

\* C24: in the configuration the script writes, for every VCPU, at most one
\* of USE_V4_{PORTABLE,SSE,AVX,AVX2}, at most one of USE_V8_{PORTABLE,AVX,
\* AVX2} and at most one of USE_V16_{PORTABLE,AVX512} is ON, and a VCPU other
\* than haswell, broadwell and knl leaves all nine OFF.
C24_OneBackend ==
  /\ Cardinality(OnOf(V4Switches)) <= 1
  /\ Cardinality(OnOf(V8Switches)) <= 1
  /\ Cardinality(OnOf(V16Switches)) <= 1
  /\ Configured =>
       /\ DOMAIN cache = {UseVars[k] : k \in 1..9}
       /\ \A n \in DOMAIN cache : cache[n] \in {"ON", "OFF"}
       /\ env.VCPU \notin {"haswell", "broadwell", "knl"} =>
            \A n \in DOMAIN cache : cache[n] = "OFF"

\* the configuration for knl: one V4 and one V16 backend ON, no V8 backend
C24_Witness ==
  /\ lineno = 873
  /\ env.VCPU = "knl"
  /\ OnOf(V4Switches) = {"USE_V4_AVX2"}
  /\ OnOf(V8Switches) = {}
  /\ OnOf(V16Switches) = {"USE_V16_AVX512"}

\* the greatest element of a non-empty set of widths
Widest(W) == CHOOSE w \in W : \A v \in W : v <= w

\* C25: an operation uses the widest enabled lane width at which it has an
\* implementation, V16 before V8 before V4, and the scalar version if there
\* is none; the choice is made per operation, so an operation that exists
\* only at V4 uses V4 also when V8 or V16 is enabled.
C25_WidthPriority ==
  path.use # -1 =>
    LET W == path.impl \cap Enabled(cache)
    IN  /\ path.use = (IF W = {} THEN 0 ELSE Widest(W))
        /\ (path.impl = {4} /\ 4 \in Enabled(cache)) => path.use = 4

\* V4, V8 and V16 are all enabled and an operation that exists only at V4
\* uses its V4 implementation
C25_Witness ==
  /\ Enabled(cache) = {4, 8, 16}
  /\ path.impl = {4}
  /\ path.use = 4

\* the lane n + 1 and the lane n - 1 modulo 2^32, for the int lane n
IncW(w) ==
  IF SInt(w) = 2147483647 THEN I32(-2147483647 - 1) ELSE I32(SInt(w) + 1)

DecW(w) ==
  IF SInt(w) = -2147483647 - 1 THEN I32(2147483647) ELSE I32(SInt(w) - 1)

\* the float x + s rounded once, for s = 1 or s = -1
FStep(x, s, nj) ==
  IF IsNaN(x) THEN QNaN
  ELSE IF IsInf(x) THEN x
  ELSE DRound(DAdd(Dy(x), s), nj)

\* the updated value of the last increment or decrement
Stepped ==
  [i \in Lanes |->
     IF last.kind = "v4int"
     THEN (IF last.op \in {"++a", "a++"} THEN IncW(last.x[i]) ELSE DecW(last.x[i]))
     ELSE FStep(last.x[i],
                IF last.op \in {"++a", "a++"} THEN DOne ELSE DNeg(DOne),
                last.hw.nj)]

\* C26: ++a and --a add 1 to and subtract 1 from every lane of a and return
\* the updated value; a++ and a-- update a the same way and return the value
\* a had before; int lanes wrap modulo 2^32, float lanes are rounded.
C26_IncDec ==
  (last.op \in {"++a", "--a", "a++", "a--"}) =>
    /\ \A i \in Lanes : SameValue(a[i], Stepped[i])
    /\ last.kind = "v4int" => a = Stepped
    /\ last.op \in {"++a", "--a"} => r = a
    /\ last.op \in {"a++", "a--"} => r = last.x

\* a++ on a v4int with a lane INT_MAX: the lane of a is INT_MIN, the lane
\* returned is INT_MAX
C26_Witness ==
  /\ last.op = "a++"
  /\ last.kind = "v4int"
  /\ \E i \in Lanes :
       /\ SInt(last.x[i]) = 2147483647
       /\ SInt(a[i]) = -2147483647 - 1
       /\ SInt(r[i]) = 2147483647

\* the four vectors load_4x1 brings from the four records
Rows(p, m) ==
  << load_4x1(p[1], m), load_4x1(p[2], m), load_4x1(p[3], m), load_4x1(p[4], m) >>

\* store_4x1 of the four vectors t at the four records, first to last
StoreRows(t, p, m) ==
  store_4x1(t[4], p[4],
    store_4x1(t[3], p[3], store_4x1(t[2], p[2], store_4x1(t[1], p[1], m))))

\* C27: load_4x4_tr leaves in a, b, c, d what load_4x1 of the four records
\* into a, b, c, d followed by transpose( a, b, c, d ) leaves; store_4x4_tr
\* leaves in memory what store_4x1 of the transposed copies of a, b, c, d at
\* the four records leaves, and leaves a, b, c, d unchanged.
C27_TransposeEquiv ==
  /\ (last.op = "load_tr" /\ last.K = 4) =>
       LET t == Rows(last.p, last.premem)
       IN  <<a, b, c, d>> = transpose(t[1], t[2], t[3], t[4])
  /\ (last.op = "store_tr" /\ last.K = 4) =>
       /\ mem = StoreRows(transpose(last.pre[1], last.pre[2], last.pre[3],
                                    last.pre[4]), last.p, last.premem)
       /\ <<a, b, c, d>> = last.pre

\* four vectors that differ from their transposes were stored transposed at
\* 16-byte records and are unchanged
C27_Witness ==
  /\ last.op = "store_tr"
  /\ last.K = 4
  /\ ValidPtrs(4, last.p)
  /\ <<a, b, c, d>> = last.pre
  /\ transpose(a, b, c, d) # <<a, b, c, d>>
  /\ Rows(last.p, mem) = transpose(a, b, c, d)
  /\ Rows(last.p, mem) # Rows(last.p, last.premem)

\* the 16-byte block of the memory m at the address p
BlockAt(p, m) == [i \in Lanes |-> m[p \div 4 + i]]

\* the memories m and n agree outside the blocks at the addresses in ps
SameBut(ps, m, n) ==
  \A w \in DOMAIN m : (\A p \in ps : w \div 4 # p \div 16) => m[w] = n[w]

BlockCall(op) == last.op = op /\ last.kind = "block"

\* C28: swap exchanges two vectors and swap_4x1 two 16-byte blocks; a second
\* call with the same arguments restores what was there, and a call whose
\* two arguments are the same object or address changes nothing; copy_4x1
\* makes the block at dst equal the block at src and leaves the block at src
\* unchanged; load_4x1 after store_4x1 at the same address returns the
\* stored vector.
C28_SwapCopy ==
  /\ BlockCall("swap") =>
       /\ Objs[last.p] = last.pre[last.q]
       /\ Objs[last.q] = last.pre[last.p]
       /\ \A k \in Lanes \ {last.p, last.q} : Objs[k] = last.pre[k]
       /\ swap(last.p, last.q, Objs) = last.pre
       /\ last.p = last.q => Objs = last.pre
       /\ mem = last.premem
  /\ BlockCall("swap_4x1") =>
       /\ BlockAt(last.p, mem) = BlockAt(last.q, last.premem)
       /\ BlockAt(last.q, mem) = BlockAt(last.p, last.premem)
       /\ SameBut({last.p, last.q}, mem, last.premem)
       /\ swap_4x1(last.p, last.q, mem) = last.premem
       /\ last.p = last.q => mem = last.premem
       /\ Objs = last.pre
  /\ BlockCall("copy_4x1") =>
       /\ BlockAt(last.p, mem) = BlockAt(last.q, last.premem)
       /\ BlockAt(last.q, mem) = BlockAt(last.q, last.premem)
       /\ SameBut({last.p}, mem, last.premem)
       /\ Objs = last.pre
  /\ BlockCall("store_4x1") =>
       /\ load_4x1(last.p, mem) = a
       /\ SameBut({last.p}, mem, last.premem)
       /\ Objs = last.pre
  /\ BlockCall("load_4x1") =>
       /\ a = BlockAt(last.p, last.premem)
       /\ mem = last.premem

\* two different blocks were exchanged, and a second swap_4x1 brings the
\* memory back
C28_Witness ==
  /\ BlockCall("swap_4x1")
  /\ last.p # last.q
  /\ BlockAt(last.p, mem) # BlockAt(last.p, last.premem)
  /\ BlockAt(last.p, mem) = BlockAt(last.q, last.premem)
  /\ swap_4x1(last.p, last.q, mem) = last.premem

\* every lane of x is all-ones where the lane of y is all-zero and all-zero
\* where the lane of y is all-ones
Complement(x, y) ==
  \A i \in Lanes :
    \/ x[i] = TRUE32 /\ y[i] = FALSE32
    \/ x[i] = FALSE32 /\ y[i] = TRUE32

\* the comparisons among <, ==, > that are all-ones in lane i
TrueOf(x, y, i) == {o \in {"<", "==", ">"} : LOGICAL(o, x, y)[i] = TRUE32}

\* C29: a != b is the complement of a == b, a <= b of a > b and a >= b of
\* a < b, and in every lane exactly one of a < b, a == b, a > b is all-ones.
C29_Derived ==
  /\ last.op = "!=" => Complement(r, LOGICAL("==", last.x, last.y))
  /\ last.op = "<=" => Complement(r, LOGICAL(">", last.x, last.y))
  /\ last.op = ">=" => Complement(r, LOGICAL("<", last.x, last.y))
  /\ last.op \in {"<", "==", ">"} =>
       \A i \in Lanes :
         /\ Cardinality(TrueOf(last.x, last.y, i)) = 1
         /\ r[i] = (IF last.op \in TrueOf(last.x, last.y, i) THEN TRUE32 ELSE FALSE32)

\* a >= b with a lane where a is less, so that a < b is all-ones and
\* a >= b all-zero, and a lane where a is greater
C29_Witness ==
  /\ last.op = ">="
  /\ \E j, k \in Lanes :
       /\ TrueOf(last.x, last.y, j) = {"<"} /\ r[j] = FALSE32
       /\ TrueOf(last.x, last.y, k) = {">"} /\ r[k] = TRUE32

\* the lane with the low 31 bits of w and the sign bit s
WithSign(w, s) == W4((w[0] % 128) + 128 * s, w[1], w[2], w[3])

\* C30: fabs clears the sign bit of every lane and nothing else, copysign(a,b)
\* has the low 31 bits of a and the sign bit of b in every lane, fabs of a
\* result of fabs is that result, and copysign(a,a) is a bit for bit.
C30_SignBit ==
  /\ ObjCall("fn", "fabs") =>
       /\ \A i \in Lanes : r[i] = WithSign(last.x[i], 0)
       /\ fabs(r) = r
       /\ copysign(last.x, last.x) = last.x
  /\ ObjCall("fn", "copysign") =>
       /\ \A i \in Lanes : r[i] = WithSign(last.x[i], last.y[i][0] \div 128)
       /\ fabs(r) = fabs(last.x)
       /\ copysign(r, r) = r

\* copysign has given a positive lane of a the sign of a negative lane of b
\* and a negative lane of a the sign of a positive lane of b
C30_Witness ==
  /\ ObjCall("fn", "copysign")
  /\ \E i, j \in Lanes :
       /\ last.x[i][0] < 128 /\ last.y[i][0] >= 128 /\ r[i] = NegF(last.x[i])
       /\ last.x[j][0] >= 128 /\ last.y[j][0] < 128 /\ r[j] = NegF(last.x[j])
       /\ r[j] # last.y[j]

====
